---- MODULE Spec2Model ----
(***************************************************************************)
(* A model of the visualization core of replay, an interactive regex       *)
(* tester: the two-level match cache (regex.rs), the capture-span layering *)
(* pass, the connector drawing and the bracket-depth colorer (render.rs,   *)
(* lib.rs), the highlight materializer (highlight.rs), the draw of the     *)
(* haystack area and the editing loop (lib.rs, input.rs), the session     *)
(* files (persist.rs) and the text field (input.rs).                       *)
(*                                                                         *)
(* Strings are sequences of one-character strings.  Each component has its *)
(* own specification (SpecCache, SpecLayer, SpecQuery, SpecHl, SpecHay,    *)
(* SpecApp, SpecPersist, SpecName, SpecInput) over the shared variables; a *)
(* specification leaves the state of the components it does not run        *)
(* untouched.                                                              *)
(***************************************************************************)
EXTENDS Integers, Sequences, FiniteSets, TLC

VARIABLES
    \* ---- regex.rs: Cache -------------------------------------------------
    cache,      \* Cache.cache: pattern -> Result<(Regex, CapturesCache), Error>
    compiles,   \* probe: how often Regex::new ran, per pattern
    runs,       \* probe: how often captures_iter ran, per <<pattern, haystack>>
    firstRes,   \* probe: the Capture Lists the first call for a pair returned
    firstErr,   \* probe: the error the first call for a pattern returned
    ret,        \* <<>> or <<r>>: arguments and result of the latest call
    \* ---- render.rs / lib.rs: the layering pass --------------------------
    lay,        \* the running draw_regex_match / draw_match call
    \* ---- render.rs / lib.rs: the bracket-depth colorer ------------------
    qry,        \* the running draw_regex_query / draw_re call
    \* ---- highlight.rs: HighlightEventWrapper ----------------------------
    hl,         \* the iterator and what the consumer has pulled from it
    \* ---- lib.rs App / render.rs: the draw of the haystack area ----------
    app,        \* the latest draw: its inputs, how it ended, what it queued
    \* ---- lib.rs App, input.rs Input: the editing loop -------------------
    ui,         \* App's fields, the pending Change and the position in run
    \* ---- persist.rs: Session and the session files ----------------------
    ses,        \* the files on disk and the result of the latest operation
    \* ---- input.rs: one Input under a sequence of edits ------------------
    fld         \* the Input and the latest operation applied to it

cacheVars == <<cache, compiles, runs, firstRes, firstErr, ret>>
vars == <<cache, compiles, runs, firstRes, firstErr, ret, lay, qry, hl, app, ui,
          ses, fld>>

(***************************************************************************)
(* Small helpers on sequences.                                             *)
(***************************************************************************)
Last(s) == s[Len(s)]
Front(s) == SubSeq(s, 1, Len(s) - 1)
Max2(a, b) == IF a < b THEN b ELSE a
Min2(a, b) == IF a < b THEN a ELSE b

RECURSIVE SeqsUpTo(_, _)
\* All sequences over S of length at most n.
SeqsUpTo(S, n) ==
    IF n = 0 THEN {<<>>}
    ELSE LET shorter == SeqsUpTo(S, n - 1)
         IN shorter \cup {Append(s, x) : s \in {t \in shorter : Len(t) = n - 1}, x \in S}

(***************************************************************************)
(* The regex engine, for the fragment of patterns made of literal          *)
(* characters and capture groups.  Regex::new fails on an unbalanced       *)
(* parenthesis; a compiled pattern is its literal text and, per group in   *)
(* the order of the opening parentheses, the group's offsets in that text. *)
(***************************************************************************)
IsParen(c) == c \in {"(", ")"}

RECURSIVE ParseDepth(_, _, _)
\* The parser's left-to-right scan: -1 on a ")" with no group open, else the
\* number of groups still open at the end.
ParseDepth(p, i, depth) ==
    IF i > Len(p) THEN depth
    ELSE IF p[i] = "(" THEN ParseDepth(p, i + 1, depth + 1)
    ELSE IF p[i] = ")" THEN (IF depth = 0 THEN -1 ELSE ParseDepth(p, i + 1, depth - 1))
    ELSE ParseDepth(p, i + 1, depth)

LitBefore(p, i) == Cardinality({j \in 1..(i - 1) : ~IsParen(p[j])})

\* The index of the ")" closing the "(" at index i of a balanced pattern.
MatchingClose(p, i) ==
    CHOOSE j \in (i + 1)..Len(p) :
        /\ p[j] = ")"
        /\ Cardinality({k \in (i + 1)..(j - 1) : p[k] = "("})
             = Cardinality({k \in (i + 1)..(j - 1) : p[k] = ")"})
        /\ \A m \in (i + 1)..(j - 1) :
             p[m] = ")" =>
                Cardinality({k \in (i + 1)..m : p[k] = ")"})
                  <= Cardinality({k \in (i + 1)..m : p[k] = "("})

RECURSIVE GroupOffsets(_, _)
GroupOffsets(p, i) ==
    IF i > Len(p) THEN <<>>
    ELSE IF p[i] = "("
         THEN <<<<LitBefore(p, i), LitBefore(p, MatchingClose(p, i))>>>>
                \o GroupOffsets(p, i + 1)
         ELSE GroupOffsets(p, i + 1)

NoRegex == [lit |-> <<>>, groups |-> <<>>]
NoError == "none"

\* Regex::new(re): Ok(regex) or Err(error), as [ok, re, err].
RegexNew(p) ==
    LET d == ParseDepth(p, 1, 0)
    IN IF d = 0
       THEN [ok |-> TRUE,
             re |-> [lit |-> SelectSeq(p, LAMBDA c : ~IsParen(c)),
                     groups |-> GroupOffsets(p, 1)],
             err |-> NoError]
       ELSE [ok |-> FALSE, re |-> NoRegex,
             err |-> IF d < 0 THEN "unopened group" ELSE "unclosed group"]

\* The start (0-based) of the leftmost occurrence of the literal at or after
\* `from`, or -1.
FindFrom(lit, hay, from) ==
    LET hits == {s \in from..(Len(hay) - Len(lit)) :
                    \A k \in 1..Len(lit) : hay[s + k] = lit[k]}
    IN IF hits = {} THEN -1 ELSE CHOOSE s \in hits : \A t \in hits : s <= t

RECURSIVE CapturesFrom(_, _, _)
CapturesFrom(re, hay, from) ==
    LET s == FindFrom(re.lit, hay, from)
        e == s + Len(re.lit)
    IN IF s < 0 THEN <<>>
       ELSE <<(<<<<s, e>>>> \o [g \in DOMAIN re.groups |->
                                   <<s + re.groups[g][1], s + re.groups[g][2]>>])>>
            \o CapturesFrom(re, hay, IF e = s THEN s + 1 ELSE e)

\* re.captures_iter(hay).map(|c| c.iter().flatten().map(|m| (m.start(),
\* m.end())).collect()).collect(): one Capture List per match, the whole
\* match first, then the groups.
CapturesIter(re, hay) == CapturesFrom(re, hay, 0)

(***************************************************************************)
(* regex.rs: CapturesCache and Cache.  A map is a function whose domain is *)
(* the set of keys stored.                                                 *)
(***************************************************************************)
EmptyMap == [k \in {} |-> {}]

\* A variant that recomputes and overwrites the entry on every call.
CapturesCacheOverwrite(cc, re, hay) ==
    [map |-> (hay :> CapturesIter(re, hay)) @@ cc, ran |-> TRUE]

\* A variant that answers a new haystack with what is stored for another one.
CapturesCacheStale(cc, re, hay) ==
    IF hay \in DOMAIN cc
    THEN [map |-> cc, ran |-> FALSE]
    ELSE IF DOMAIN cc # {}
         THEN [map |-> (hay :> cc[CHOOSE h \in DOMAIN cc : TRUE]) @@ cc, ran |-> FALSE]
         ELSE [map |-> (hay :> CapturesIter(re, hay)) @@ cc, ran |-> TRUE]

\* CapturesCache::get_or_init: entry(hay).or_insert_with(captures_iter).
\* `ran` tells whether the closure, hence the match engine, ran.
CapturesCache_get_or_init(cc, re, hay) ==
    IF hay \in DOMAIN cc
    THEN [map |-> cc, ran |-> FALSE]
    ELSE [map |-> (hay :> CapturesIter(re, hay)) @@ cc, ran |-> TRUE]

\* The value or_insert_with stores for a new pattern.
CompileEntry(p) ==
    LET r == RegexNew(p)
    IN [ok |-> r.ok, re |-> r.re, caps |-> EmptyMap, err |-> r.err]

OkRes(capLists) == [ok |-> TRUE, caps |-> capLists, err |-> NoError]
ErrRes(e) == [ok |-> FALSE, caps |-> <<>>, err |-> e]

\* The lookup, given what is stored for the pattern after or_insert_with.
CacheLookup(c, p, hay, compiled) ==
    LET e == c[p]
    IN IF e.ok
       THEN LET g == CapturesCache_get_or_init(e.caps, e.re, hay)
            IN [cache |-> [c EXCEPT ![p].caps = g.map],
                res |-> OkRes(g.map[hay]),
                compiled |-> compiled, ran |-> g.ran]
       ELSE [cache |-> c, res |-> ErrRes(e.err),
             compiled |-> compiled, ran |-> FALSE]

\* A variant that does not keep a failed compilation: it compiles again.
CacheRetryFailed(c, p, hay) ==
    IF p \in DOMAIN c /\ c[p].ok
    THEN CacheLookup(c, p, hay, FALSE)
    ELSE CacheLookup((p :> CompileEntry(p)) @@ c, p, hay, TRUE)

\* A variant that compiles the pattern again whenever the haystack is new.
CacheRecompileOnNewHay(c, p, hay) ==
    IF p \in DOMAIN c /\ (~c[p].ok \/ hay \in DOMAIN c[p].caps)
    THEN CacheLookup(c, p, hay, FALSE)
    ELSE CacheLookup((p :> [CompileEntry(p) EXCEPT
                               !.caps = IF p \in DOMAIN c THEN c[p].caps ELSE EmptyMap])
                       @@ c, p, hay, TRUE)

\* A variant that holds one pattern only: a new pattern evicts the others.
CacheSingleEntry(c, p, hay) ==
    IF p \in DOMAIN c
    THEN CacheLookup(c, p, hay, FALSE)
    ELSE CacheLookup((p :> CompileEntry(p)), p, hay, TRUE)

\* Cache::get_or_init: entry(re).or_insert_with(|| Regex::new(re).map(..))
\* .as_mut().map(|(r, c)| c.get_or_init(r, hay)).map_err(..).
\* `compiled` tells whether the closure, hence Regex::new, ran.
Cache_get_or_init(c, p, hay) ==
    IF p \in DOMAIN c
    THEN CacheLookup(c, p, hay, FALSE)
    ELSE CacheLookup((p :> CompileEntry(p)) @@ c, p, hay, TRUE)

\* The patterns and haystacks the calls are drawn from.
CachePatterns ==
    { <<"a">>,
      <<"(", "a", "(", "b", ")", "c", ")">>,
      <<"(", "a">>,
      <<")">> }
CacheHays == { <<>>, <<"a", "a">>, <<"a", "b", "c">> }

CacheInit ==
    /\ cache = EmptyMap
    /\ compiles = [p \in CachePatterns |-> 0]
    /\ runs = [x \in CachePatterns \X CacheHays |-> 0]
    /\ firstRes = EmptyMap
    /\ firstErr = EmptyMap
    /\ ret = <<>>

\* One call cache.get_or_init(p, hay), with the probes updated.
GetOrInit(p, hay) ==
    LET r == Cache_get_or_init(cache, p, hay)
    IN /\ cache' = r.cache
       /\ compiles' = IF r.compiled THEN [compiles EXCEPT ![p] = @ + 1] ELSE compiles
       /\ runs' = IF r.ran THEN [runs EXCEPT ![<<p, hay>>] = @ + 1] ELSE runs
       /\ firstRes' = IF r.res.ok /\ <<p, hay>> \notin DOMAIN firstRes
                      THEN (<<p, hay>> :> r.res.caps) @@ firstRes
                      ELSE firstRes
       /\ firstErr' = IF ~r.res.ok /\ p \notin DOMAIN firstErr
                      THEN (p :> r.res.err) @@ firstErr
                      ELSE firstErr
       /\ ret' = <<[pat |-> p, hay |-> hay, res |-> r.res,
                    patHit |-> p \in DOMAIN cache,
                    hayHit |-> p \in DOMAIN cache /\ hay \in DOMAIN cache[p].caps]>>

\* A part of the program that a specification does not run.
IdleLay == [phase |-> "off"]
IdleQry == [phase |-> "off"]
IdleHl == [phase |-> "off"]
IdleApp == [phase |-> "off"]
IdleUi == [phase |-> "off"]
IdleSes == [phase |-> "off"]
IdleFld == [phase |-> "off"]

CacheCall ==
    /\ \E p \in CachePatterns, hay \in CacheHays : GetOrInit(p, hay)
    /\ UNCHANGED <<lay, qry, hl, app, ui, ses, fld>>

InitCache ==
    CacheInit /\ ses = IdleSes /\ fld = IdleFld /\ lay = IdleLay /\ qry = IdleQry /\ hl = IdleHl /\ app = IdleApp /\ ui = IdleUi
NextCache == CacheCall
SpecCache == InitCache /\ [][NextCache]_vars

(***************************************************************************)
(* render.rs: Render::draw_regex_match, and lib.rs: draw_match.  The       *)
(* layering pass over one Capture List, one loop iteration per step.       *)
(* `lay` holds the call's locals: captures (the argument), i (the next     *)
(* span, 1-based), layers (the stack of pending end offsets), infos,       *)
(* max_layer, and colorIdx, the latest index used on LAYER_COLORS.         *)
(* phase is "run" inside the loop, "done" after the return and "panic"     *)
(* after an index out of bounds.                                           *)
(***************************************************************************)
LAYER_COLORS == <<"Grey", "Green", "Yellow", "Blue", "Magenta", "Cyan">>

\* LAYER_COLORS[idx], idx 0-based, is in bounds.
InColorTable(idx) == 0 <= idx /\ idx < Len(LAYER_COLORS)

RECURSIVE PopClosedStrict(_, _)
\* A variant that keeps a pending end equal to the new start.
PopClosedStrict(layers, start) ==
    IF layers # <<>> /\ Last(layers) < start
    THEN PopClosedStrict(Front(layers), start)
    ELSE layers

\* A variant that pops at most one pending end.
PopClosedOnce(layers, start) ==
    IF layers # <<>> /\ Last(layers) <= start THEN Front(layers) ELSE layers

RECURSIVE PopClosed(_, _)
\* while layers.last().is_some_and(|l| *l <= start) { layers.pop(); }
PopClosed(layers, start) ==
    IF layers # <<>> /\ Last(layers) <= start
    THEN PopClosed(Front(layers), start)
    ELSE layers

\* A variant that forgets the - 1.
LayerOfLen(layers) == Len(layers)

\* let layer = layers.len() - 1;
LayerOf(layers) == Len(layers) - 1

\* max_layer = cmp::max(max_layer, layer);                     (render.rs)
MaxLayerRender(max_layer, layer) == Max2(max_layer, layer)

\* if layer > max_layer { max_layer = layers.len() - 1; }         (lib.rs)
MaxLayerLib(max_layer, layer, layers) ==
    IF layer > max_layer THEN Len(layers) - 1 ELSE max_layer

\* One iteration of `for &(start, end) in captures`.
MatchIter(st) ==
    LET start == st.captures[st.i][1]
        end == st.captures[st.i][2]
        layers == Append(PopClosed(st.layers, start), end)
        layer == LayerOf(layers)
    IN IF ~InColorTable(layer)
       THEN [st EXCEPT !.phase = "panic", !.layers = layers, !.colorIdx = layer]
       ELSE [st EXCEPT
                !.layers = layers,
                !.colorIdx = layer,
                !.infos = Append(@, [start |-> start, end |-> end, layer |-> layer]),
                !.max_layer = IF st.impl = "render"
                              THEN MaxLayerRender(@, layer)
                              ELSE MaxLayerLib(@, layer, layers),
                !.i = @ + 1]

\* The locals at the start of a call on `captures`.  nth numbers the
\* Capture Lists of one draw, prevMax is the max layer of the list before
\* (-1 for the first) and out is what the connector drawing queued.
MatchEnter(impl, captures) ==
    [phase |-> "run", impl |-> impl, captures |-> captures, i |-> 1,
     layers |-> <<>>, infos |-> <<>>, max_layer |-> 0, colorIdx |-> -1,
     nth |-> 1, prevMax |-> -1, out |-> <<>>]

\* Render::draw_regex_match: the loop body for the next span.
DrawRegexMatchIter ==
    /\ lay.phase = "run" /\ lay.impl = "render"
    /\ lay.i <= Len(lay.captures)
    /\ lay' = MatchIter(lay)
    /\ UNCHANGED <<cacheVars, qry, hl, app, ui, ses, fld>>

\* Render::draw_regex_match: Ok((max_layer, infos)).
DrawRegexMatchReturn ==
    /\ lay.phase = "run" /\ lay.impl = "render"
    /\ lay.i > Len(lay.captures)
    /\ lay' = [lay EXCEPT !.phase = "done"]
    /\ UNCHANGED <<cacheVars, qry, hl, app, ui, ses, fld>>

\* lib.rs draw_match: the loop body for the next span.
DrawMatchIter ==
    /\ lay.phase = "run" /\ lay.impl = "lib"
    /\ lay.i <= Len(lay.captures)
    /\ lay' = MatchIter(lay)
    /\ UNCHANGED <<cacheVars, qry, hl, app, ui, ses, fld>>

\* lib.rs draw_match: Ok((max_layer, infos)).
DrawMatchReturn ==
    /\ lay.phase = "run" /\ lay.impl = "lib"
    /\ lay.i > Len(lay.captures)
    /\ lay' = [lay EXCEPT !.phase = "done"]
    /\ UNCHANGED <<cacheVars, qry, hl, app, ui, ses, fld>>

\* ---- the Capture Lists the pass is run on --------------------------------
MaxPos == 3       \* spans lie in 0..MaxPos
MaxSpans == 3     \* spans per Capture List, for the lists enumerated in full
MaxNest == 7      \* depth of the nested lists added to them

SpanSet == {<<a, b>> : a \in 0..MaxPos, b \in 0..MaxPos} \ {<<a, b>> \in (0..MaxPos) \X (0..MaxPos) : a > b}

\* The two lists of the layering examples.
ExampleSiblings == << <<0, 10>>, <<2, 5>>, <<6, 8>> >>
ExampleNested == << <<0, 10>>, <<2, 8>>, <<4, 6>> >>

\* k spans, each strictly inside the one before.
NestedList(k) == [j \in 1..k |-> <<j - 1, 2 * k - j>>]

\* The pattern of k groups around one "a", and what the engine returns for
\* it on the haystack "a": the match and its k groups, all (0, 1).
NestPattern(k) == [j \in 1..(2 * k + 1) |->
                      IF j <= k THEN "(" ELSE IF j = k + 1 THEN "a" ELSE ")"]
EngineList(k) == CapturesIter(RegexNew(NestPattern(k)).re, <<"a">>)[1]

\* What the engine returns for the pattern (a(b)c) on the haystack abc.
ExamplePattern == <<"(", "a", "(", "b", ")", "c", ")">>
ExampleCaptures == CapturesIter(RegexNew(ExamplePattern).re, <<"a", "b", "c">>)[1]

\* The lists of at most maxSpans spans, the examples and the nested lists.
CaptureLists(maxSpans) ==
    SeqsUpTo(SpanSet, maxSpans)
      \cup {ExampleSiblings, ExampleNested, ExampleCaptures}
      \cup {NestedList(k) : k \in 1..MaxNest}
      \cup {EngineList(k) : k \in 0..MaxNest}

InitLayer ==
    /\ CacheInit /\ ses = IdleSes /\ fld = IdleFld /\ qry = IdleQry /\ hl = IdleHl /\ app = IdleApp /\ ui = IdleUi
    /\ \E impl \in {"render", "lib"}, captures \in CaptureLists(MaxSpans) :
          lay = MatchEnter(impl, captures)


(***************************************************************************)
(* highlight.rs: HighlightGroup and HighlightEventWrapper.                 *)
(*                                                                         *)
(* An event is [type, num, end]: HighlightStart(Highlight(num)),           *)
(* HighlightEnd, Source {start: _, end}, or an Err item of the iterator.   *)
(* `hl` holds the wrapper (events, the Vec collected by new; it, how many  *)
(* of them IntoIter has handed out; pos; limit; stack) and what the        *)
(* consumer got from its latest pull: pulled is "no" before the first      *)
(* pull, "some" after Some(color), "none" after None; yielded counts the   *)
(* colours the consumer has got so far.                                    *)
(***************************************************************************)
\* enum HighlightGroup, in declaration order: the derived Ord.
HighlightGroups ==
    <<"Flags", "Anchors", "Quantifiers", "CharacterClass", "Operator", "Escape", "Group">>

\* The position of a group in the derived order.
GroupRank(g) == CHOOSE r \in DOMAIN HighlightGroups : HighlightGroups[r] = g

\* HighlightGroup::all(): the colour of each group.
GroupColor(g) ==
    CASE g = "Flags" -> "Blue"
      [] g = "Anchors" -> "Magenta"
      [] g = "Quantifiers" -> "DarkMagenta"
      [] g = "CharacterClass" -> "DarkBlue"
      [] g = "Operator" -> "DarkYellow"
      [] g = "Escape" -> "Black"
      [] g = "Group" -> "Black"

StartEv(num) == [type |-> "Start", num |-> num, end |-> 0]
EndEv == [type |-> "End", num |-> 0, end |-> 0]
SourceEv(end) == [type |-> "Source", num |-> 0, end |-> end]
ErrEv == [type |-> "Err", num |-> 0, end |-> 0]

RECURSIVE MinGroup(_)
\* self.stack.iter().min()
MinGroup(stack) ==
    IF Len(stack) = 1 THEN stack[1]
    ELSE LET m == MinGroup(Front(stack))
         IN IF GroupRank(Last(stack)) < GroupRank(m) THEN Last(stack) ELSE m

\* A variant in which the category opened last wins.
StackColorTop(stack) ==
    IF stack = <<>> THEN "Reset" ELSE GroupColor(Last(stack))

\* self.stack.iter().min().map(|group| group.color()).or(Some(Color::Reset))
StackColor(stack) ==
    IF stack = <<>> THEN "Reset" ELSE GroupColor(MinGroup(stack))

\* A variant that takes the end of a Source range as its last byte.
HlConsumeInclusiveEnd(w, ev) ==
    CASE ev.type = "Start" ->
            [w EXCEPT !.it = @ + 1,
                      !.stack = Append(@, HighlightGroups[ev.num + 1])]
      [] ev.type = "Source" -> [w EXCEPT !.it = @ + 1, !.limit = ev.end + 1]
      [] ev.type = "End" ->
            [w EXCEPT !.it = @ + 1,
                      !.stack = IF @ = <<>> THEN <<>> ELSE Front(@)]

\* The wrapper after the match on one Ok(event).
HlConsume(w, ev) ==
    CASE ev.type = "Start" ->
            [w EXCEPT !.it = @ + 1,
                      !.stack = Append(@, HighlightGroups[ev.num + 1])]
      [] ev.type = "Source" -> [w EXCEPT !.it = @ + 1, !.limit = ev.end]
      [] ev.type = "End" ->
            [w EXCEPT !.it = @ + 1,
                      !.stack = IF @ = <<>> THEN <<>> ELSE Front(@)]

RECURSIVE HlNext(_)
\* HighlightEventWrapper::next: the wrapper afterwards and the item,
\* <<color>> for Some(color) and <<>> for None.
HlNext(w) ==
    IF w.pos < w.limit
    THEN [w |-> [w EXCEPT !.pos = @ + 1], item |-> <<StackColor(w.stack)>>]
    ELSE IF w.it < Len(w.events) /\ w.events[w.it + 1].type # "Err"
         THEN HlNext(HlConsume(w, w.events[w.it + 1]))
         ELSE [w |-> [w EXCEPT !.it = IF @ < Len(w.events) THEN @ + 1 ELSE @],
               item |-> <<>>]

\* HighlightEventWrapper { iter: events, ..Default::default() }
HlEnter(events) ==
    [phase |-> "run", events |-> events, it |-> 0, pos |-> 0, limit |-> 0,
     stack |-> <<>>, pulled |-> "no", color |-> "Reset", yielded |-> 0]

\* The consumer's record of its pulls: the wrapper, the latest item and how
\* many colours the pulls gave.
HlAfterPull(r, got) ==
    [r.w EXCEPT !.pulled = IF r.item = <<>> THEN "none" ELSE "some",
                !.color = IF r.item = <<>> THEN "Reset" ELSE r.item[1],
                !.yielded = @ + got]

\* One call of next() by the consumer.
HlPull ==
    /\ hl.phase = "run"
    /\ LET r == HlNext(hl)
       IN hl' = HlAfterPull(r, IF r.item = <<>> THEN 0 ELSE 1)
    /\ UNCHANGED <<cacheVars, lay, qry, app, ui, ses, fld>>

\* ---- the event streams the materializer is run on ------------------------
MaxEvents == 5    \* events per stream, for the streams enumerated in full
SourceLens == {0, 1, 2}
GroupNums == 0..(Len(HighlightGroups) - 1)

RECURSIVE WellFormed(_, _, _)
\* The well-formed streams of n events that start with `open` categories
\* open and at byte `at`: every End closes a Start, every Start is closed,
\* Source ranges follow one another.
WellFormed(n, open, at) ==
    IF n = 0 THEN (IF open = 0 THEN {<<>>} ELSE {})
    ELSE LET opened == WellFormed(n - 1, open + 1, at)
             closed == IF open > 0 THEN WellFormed(n - 1, open - 1, at) ELSE {}
         IN {<<StartEv(num)>> \o t : num \in GroupNums, t \in opened}
            \cup {<<EndEv>> \o t : t \in closed}
            \cup UNION {{<<SourceEv(at + len)>> \o t :
                            t \in WellFormed(n - 1, open, at + len)}
                        : len \in SourceLens}

\* Two categories open together until the one opened last closes.
TwoOpen(a, b) ==
    <<StartEv(a), StartEv(b), SourceEv(1), EndEv, SourceEv(3), EndEv>>

\* Streams with an error event: alone, between two Source ranges, and
\* inside an open category.
ErrStreams ==
    { <<ErrEv>>,
      <<SourceEv(1), ErrEv, SourceEv(3)>>,
      <<StartEv(0), SourceEv(1), ErrEv, SourceEv(2), EndEv, SourceEv(3)>> }

\* The streams of at most maxEvents events, the TwoOpen streams and the
\* streams with an error event.
EventStreams(maxEvents) ==
    UNION {WellFormed(n, 0, 0) : n \in 0..maxEvents}
      \cup {TwoOpen(a, b) : a \in GroupNums, b \in GroupNums}
      \cup ErrStreams

InitHl ==
    /\ CacheInit /\ ses = IdleSes /\ fld = IdleFld /\ lay = IdleLay /\ qry = IdleQry /\ app = IdleApp /\ ui = IdleUi
    /\ \E events \in EventStreams(MaxEvents) : hl = HlEnter(events)

NextHl == HlPull

SpecHl == InitHl /\ [][NextHl]_vars

(***************************************************************************)
(* render.rs: Render::draw_regex_query, and lib.rs: App::draw_re.  The     *)
(* bracket-depth colorer, one character per step.  `qry` holds s, i (the   *)
(* next character, 1-based), layer, drawn (what self.draw was given) and   *)
(* colorIdx, the latest index used on LAYER_COLORS; draw_regex_query pulls *)
(* its syntax colours from the wrapper in `hl`.                            *)
(***************************************************************************)
\* char::len_utf8
Utf8Len(ch) == IF ch = "e_acute" THEN 2 ELSE 1

RECURSIVE TakeFirst(_, _, _)
\* A variant that keeps the first colour of the n pulls.
TakeFirst(w, n, last) ==
    IF n = 0 THEN [w |-> w, item |-> last, got |-> <<>>]
    ELSE LET r == HlNext(w)
         IN IF r.item = <<>> THEN [w |-> r.w, item |-> last, got |-> <<>>]
            ELSE LET t == TakeFirst(r.w, n - 1, IF last = <<>> THEN r.item ELSE last)
                 IN [t EXCEPT !.got = r.item \o @]

RECURSIVE TakeLast(_, _, _)
\* iter.by_ref().take(n).last(): up to n pulls, stopping at the first None;
\* the last Some, if any, and the colours the pulls gave, in order.
TakeLast(w, n, last) ==
    IF n = 0 THEN [w |-> w, item |-> last, got |-> <<>>]
    ELSE LET r == HlNext(w)
         IN IF r.item = <<>> THEN [w |-> r.w, item |-> last, got |-> <<>>]
            ELSE [TakeLast(r.w, n - 1, r.item) EXCEPT !.got = r.item \o @]

\* layer.saturating_sub(1)
SaturatingSub1(n) == IF n = 0 THEN 0 ELSE n - 1

\* A variant that leaves the layer of a ')' before it picks the colour.
BracketIterCloseFirst(st, other) ==
    LET ch == st.s[st.i]
    IN CASE ch = "(" ->
              IF ~InColorTable(st.layer + 1)
              THEN [st EXCEPT !.phase = "panic", !.layer = @ + 1,
                              !.colorIdx = st.layer + 1]
              ELSE [st EXCEPT !.layer = @ + 1, !.colorIdx = st.layer + 1,
                              !.drawn = Append(@, <<ch, LAYER_COLORS[st.layer + 2]>>),
                              !.i = @ + 1]
         [] ch = ")" ->
              [st EXCEPT !.layer = SaturatingSub1(@), !.colorIdx = SaturatingSub1(st.layer),
                         !.drawn = Append(@, <<ch, LAYER_COLORS[SaturatingSub1(st.layer) + 1]>>),
                         !.i = @ + 1]
         [] OTHER ->
              [st EXCEPT !.drawn = Append(@, <<ch, other>>), !.i = @ + 1]

\* The match on ch, given the colour of a character that is no parenthesis.
BracketIter(st, other) ==
    LET ch == st.s[st.i]
    IN CASE ch = "(" ->
              IF ~InColorTable(st.layer + 1)
              THEN [st EXCEPT !.phase = "panic", !.layer = @ + 1,
                              !.colorIdx = st.layer + 1]
              ELSE [st EXCEPT !.layer = @ + 1, !.colorIdx = st.layer + 1,
                              !.drawn = Append(@, <<ch, LAYER_COLORS[st.layer + 2]>>),
                              !.i = @ + 1]
         [] ch = ")" ->
              IF ~InColorTable(st.layer)
              THEN [st EXCEPT !.phase = "panic", !.colorIdx = st.layer]
              ELSE [st EXCEPT !.layer = SaturatingSub1(@), !.colorIdx = st.layer,
                              !.drawn = Append(@, <<ch, LAYER_COLORS[st.layer + 1]>>),
                              !.i = @ + 1]
         [] OTHER ->
              [st EXCEPT !.drawn = Append(@, <<ch, other>>), !.i = @ + 1]

\* The locals of a pass over the pattern s; tok records how
\* HighlightEventWrapper::new ended ("ok", "failed"; "none" where the
\* implementation has no tokenizer), pulls the colours the materializer
\* gave for every character so far.
QueryEnter(impl, s) ==
    [phase |-> "run", impl |-> impl, s |-> s, i |-> 1, layer |-> 0,
     drawn |-> <<>>, colorIdx |-> -1, tok |-> "none", pulls |-> <<>>]

\* HighlightEventWrapper::new(s.as_bytes()).unwrap_or_default(): the wrapper
\* over the tokenizer's events, or the derived Default (an empty event
\* iterator, pos = limit = 0, an empty stack) when new returned an error.
UnwrapOrDefault(tok, events) ==
    IF tok = "failed" THEN HlEnter(<<>>) ELSE HlEnter(events)

\* Render::draw_regex_query: the loop body for the next character.
DrawRegexQueryIter ==
    /\ qry.phase = "run" /\ qry.impl = "render"
    /\ qry.i <= Len(qry.s)
    /\ LET r == TakeLast(hl, Utf8Len(qry.s[qry.i]), <<>>)
           syntax_color == IF r.item = <<>> THEN "Reset" ELSE r.item[1]
       IN /\ hl' = HlAfterPull(r, Len(r.got))
          /\ qry' = [BracketIter(qry, syntax_color) EXCEPT !.pulls = Append(@, r.got)]
    /\ UNCHANGED <<cacheVars, lay, app, ui, ses, fld>>

\* Render::draw_regex_query: Ok(()).
DrawRegexQueryReturn ==
    /\ qry.phase = "run" /\ qry.impl = "render"
    /\ qry.i > Len(qry.s)
    /\ qry' = [qry EXCEPT !.phase = "done"]
    /\ UNCHANGED <<cacheVars, lay, hl, app, ui, ses, fld>>

\* App::draw_re: the loop body for the next character.
DrawReIter ==
    /\ qry.phase = "run" /\ qry.impl = "lib"
    /\ qry.i <= Len(qry.s)
    /\ qry' = BracketIter(qry, "Reset")
    /\ UNCHANGED <<cacheVars, lay, hl, app, ui, ses, fld>>

\* App::draw_re: Ok(()).
DrawReReturn ==
    /\ qry.phase = "run" /\ qry.impl = "lib"
    /\ qry.i > Len(qry.s)
    /\ qry' = [qry EXCEPT !.phase = "done"]
    /\ UNCHANGED <<cacheVars, lay, hl, app, ui, ses, fld>>

\* ---- the patterns the colorer is run on ---------------------------------
MaxPatLen == 6    \* characters per pattern
MaxWideLen == 3   \* characters per pattern with a character of two bytes
PatAlphabet == {"(", ")", "a"}
WideAlphabet == {"(", "a", "e_acute"}
MaxDeep == 6      \* pairs of parentheses nested in one another
Parens(k) == [i \in 1..(2 * k) |-> IF i <= k THEN "(" ELSE ")"]
QueryPatterns(maxLen, maxWideLen) ==
    SeqsUpTo(PatAlphabet, maxLen) \cup SeqsUpTo(WideAlphabet, maxWideLen)
      \cup {Parens(k) : k \in 1..MaxDeep}

\* The events HighlightEventWrapper::new(s) may collect for a pattern of n
\* bytes: nothing; one Source over the pattern; a highlighted first byte
\* and then the rest; a highlighted second byte between the first and the
\* rest; and streams that stop after the first or the second byte.
TokenStreams(n) ==
    {<<>>}
      \cup (IF n >= 1 THEN {<<SourceEv(n)>>} ELSE {})
      \cup (IF n >= 2
            THEN {<<StartEv(4), SourceEv(1), EndEv, SourceEv(n)>>, <<SourceEv(1)>>}
            ELSE {})
      \cup (IF n >= 3
            THEN {<<SourceEv(1), StartEv(0), SourceEv(2), EndEv, SourceEv(n)>>,
                  <<SourceEv(1), StartEv(0), SourceEv(2), EndEv>>}
            ELSE {})

RECURSIVE ByteLen(_)
ByteLen(s) == IF s = <<>> THEN 0 ELSE Utf8Len(s[1]) + ByteLen(Tail(s))

InitQuery ==
    /\ CacheInit /\ ses = IdleSes /\ fld = IdleFld /\ lay = IdleLay /\ app = IdleApp /\ ui = IdleUi
    /\ \E s \in QueryPatterns(MaxPatLen, MaxWideLen) :
          \/ \E tok \in {"ok", "failed"}, events \in TokenStreams(ByteLen(s)) :
                /\ qry = [QueryEnter("render", s) EXCEPT !.tok = tok]
                /\ hl = UnwrapOrDefault(tok, events)
          \/ /\ qry = QueryEnter("lib", s)
             /\ hl = IdleHl

NextQuery ==
    \/ DrawRegexQueryIter
    \/ DrawRegexQueryReturn
    \/ DrawReIter
    \/ DrawReReturn

SpecQuery == InitQuery /\ [][NextQuery]_vars

(***************************************************************************)
(* lib.rs App::draw_hay, render.rs Render::draw_regex_hay and draw_error:  *)
(* the draw of the haystack area.  A draw is the sequence of instructions  *)
(* it queues, each a MoveTo(col, row) followed by a text in a colour.      *)
(***************************************************************************)

\* The origin of the haystack field in App::draw.
LEFT_PADDING == 20
LINES_BETWEEN == 3

\* print_at(w, color, text, col, row) / Render::at(color, text, col, row).
\* A text is a sequence of strings.
At(color, text, col, row) ==
    [color |-> color, text |-> text, col |-> col, row |-> row]

\* err.to_string().lines() for the syntax error of pattern p: the header,
\* the pattern, the marker under it and the error itself.
ErrorLines(p, err) ==
    << <<"regex parse error:">>, <<"    ">> \o p, <<"    ^">>, <<"error: ", err>> >>

\* The label and then line i of the message on row + 1 + i.
ErrorInstrs(label, lines, col, row) ==
    <<At("DarkRed", <<label>>, col, row)>>
      \o [j \in 1..Len(lines) |-> At("Reset", lines[j], col, row + 1 + (j - 1))]

\* lib.rs draw_error(w, err, col, row)
draw_error(lines, col, row) == ErrorInstrs("ERROR:", lines, col, row)

\* Render::draw_error(s, col, row)
Render_draw_error(lines, col, row) == ErrorInstrs("ERROR", lines, col, row)

RECURSIVE RunMatch(_)
\* draw_regex_match / draw_match from the locals st to its return or panic.
RunMatch(st) ==
    IF st.phase # "run" THEN st
    ELSE IF st.i > Len(st.captures) THEN [st EXCEPT !.phase = "done"]
    ELSE RunMatch(MatchIter(st))

\* The instructions of the pass: at(color, &s[start..end], col + start, row)
\* for every span that got a layer.
SpanInstrs(infos, s, col, row) ==
    [j \in DOMAIN infos |->
        At(LAYER_COLORS[infos[j].layer + 1],
           SubSeq(s, infos[j].start + 1, infos[j].end),
           col + infos[j].start, row)]

\* A variant that writes the label on the row below the span's own
\* connector row.
GroupInstrsLabelOwnRow(g, col, row, max_layer) ==
    LET color == LAYER_COLORS[g.layer + 1]
        last == SaturatingSub1(g.end)
    IN [k \in 1..(last - g.start) |->
            At(color, <<"~">>, col + g.start + (k - 1), row + g.layer + 1)]
       \o <<At(color, <<"|">>, col + last, row + g.layer + 1)>>
       \o [k \in 1..(max_layer - g.layer + 1) |->
            At(color, <<"|">>, col + g.start, row + g.layer + k)]
       \o <<At(color, <<ToString(g.layer)>>, col + g.start, row + g.layer + 2)>>

\* A variant that ends the tildes on the last column of the span and puts
\* the bar after it.
GroupInstrsBarAtEnd(g, col, row, max_layer) ==
    LET color == LAYER_COLORS[g.layer + 1]
    IN [k \in 1..(g.end - g.start) |->
            At(color, <<"~">>, col + g.start + (k - 1), row + g.layer + 1)]
       \o <<At(color, <<"|">>, col + g.end, row + g.layer + 1)>>
       \o [k \in 1..(max_layer - g.layer + 1) |->
            At(color, <<"|">>, col + g.start, row + g.layer + k)]
       \o <<At(color, <<ToString(g.layer)>>, col + g.start, row + max_layer + 2)>>

\* The body of `for &Group { start, end, layer } in infos`.
GroupInstrs(g, col, row, max_layer) ==
    LET color == LAYER_COLORS[g.layer + 1]
        last == SaturatingSub1(g.end)
    IN [k \in 1..(last - g.start) |->
            At(color, <<"~">>, col + g.start + (k - 1), row + g.layer + 1)]
       \o <<At(color, <<"|">>, col + last, row + g.layer + 1)>>
       \o [k \in 1..(max_layer - g.layer + 1) |->
            At(color, <<"|">>, col + g.start, row + g.layer + k)]
       \o <<At(color, <<ToString(g.layer)>>, col + g.start, row + max_layer + 2)>>

RECURSIVE DrawGroups(_, _, _, _)
\* draw_regex_groups / draw_groups(infos, col, row, max_layer)
DrawGroups(infos, col, row, max_layer) ==
    IF infos = <<>> THEN <<>>
    ELSE GroupInstrs(infos[1], col, row, max_layer)
           \o DrawGroups(Tail(infos), col, row, max_layer)

RECURSIVE DrawCaps(_, _, _, _, _)
\* `for captures in matches { draw_regex_match; draw_regex_groups }`: how
\* the loop ended, what it queued and what every pass returned.
DrawCaps(impl, s, matches, col, row) ==
    IF matches = <<>> THEN [phase |-> "done", out |-> <<>>, passes |-> <<>>]
    ELSE LET m == RunMatch(MatchEnter(impl, matches[1]))
             spans == SpanInstrs(m.infos, s, col, row)
         IN IF m.phase = "panic"
            THEN [phase |-> "panic", out |-> spans, passes |-> <<m>>]
            ELSE LET rest == DrawCaps(impl, s, Tail(matches), col, row)
                 IN [phase |-> rest.phase,
                     out |-> spans \o DrawGroups(m.infos, col, row, m.max_layer)
                                \o rest.out,
                     passes |-> <<m>> \o rest.passes]

\* A variant that prints the haystack after the spans and the connectors.
draw_regex_hayTextLast(impl, s, matches, col, row) ==
    LET d == DrawCaps(impl, s, matches, col, row)
    IN [d EXCEPT !.out = @ \o <<At("Reset", s, col, row)>>]

\* Render::draw_regex_hay(s, matches, col, row); the body of App::draw_hay
\* after the lookup returned Ok(caps).
draw_regex_hay(impl, s, matches, col, row) ==
    LET d == DrawCaps(impl, s, matches, col, row)
    IN [d EXCEPT !.out = <<At("Reset", s, col, row)>> \o @]

\* A variant that prints the haystack before it looks at the result.
draw_hayTextFirst(p, hay, res, col, row) ==
    IF ~res.ok
    THEN [phase |-> "done", passes |-> <<>>,
          out |-> <<At("Reset", hay, col, row)>>
                    \o draw_error(ErrorLines(p, res.err), col, row)]
    ELSE draw_regex_hay("lib", hay, res.caps, col, row)

\* App::draw_hay, given the result of the lookup.
draw_hay(p, hay, res, col, row) ==
    IF ~res.ok
    THEN [phase |-> "done", passes |-> <<>>,
          out |-> draw_error(ErrorLines(p, res.err), col, row)]
    ELSE draw_regex_hay("lib", hay, res.caps, col, row)

\* What a draw leaves: the implementation, the inputs, whether the lookup
\* returned an error, and the outcome d.
AfterDraw(impl, p, hay, ok, d) ==
    [phase |-> d.phase, impl |-> impl, re |-> p, hay |-> hay, ok |-> ok,
     out |-> d.out, passes |-> d.passes]

\* App::draw_hay on a pattern and a haystack, through the cache.
AppDrawHay ==
    /\ \E p \in CachePatterns, hay \in CacheHays :
          /\ GetOrInit(p, hay)
          /\ LET res == Cache_get_or_init(cache, p, hay).res
             IN app' = AfterDraw("lib", p, hay, res.ok,
                                 draw_hay(p, hay, res, LEFT_PADDING, LINES_BETWEEN))
    /\ UNCHANGED <<lay, qry, hl, ui, ses, fld>>

\* Render::draw_regex_hay on the Capture Lists of a pattern that compiles.
RenderDrawRegexHay ==
    /\ \E p \in CachePatterns, hay \in CacheHays :
          LET r == RegexNew(p)
          IN /\ r.ok
             /\ app' = AfterDraw("render", p, hay, TRUE,
                                 draw_regex_hay("render", hay, CapturesIter(r.re, hay),
                                                LEFT_PADDING, LINES_BETWEEN))
    /\ UNCHANGED <<cacheVars, lay, qry, hl, ui, ses, fld>>

\* Render::draw_error on the message of a pattern that does not compile.
RenderDrawError ==
    /\ \E p \in CachePatterns, hay \in CacheHays :
          LET r == RegexNew(p)
          IN /\ ~r.ok
             /\ app' = AfterDraw("render", p, hay, FALSE,
                                 [phase |-> "done", passes |-> <<>>,
                                  out |-> Render_draw_error(ErrorLines(p, r.err),
                                                            LEFT_PADDING, LINES_BETWEEN)])
    /\ UNCHANGED <<cacheVars, lay, qry, hl, ui, ses, fld>>

(***************************************************************************)
(* The loop of draw_regex_hay / draw_hay step by step: after a pass has    *)
(* returned, the connector drawing for its spans, then the pass for the    *)
(* next Capture List.                                                      *)
(***************************************************************************)
MaxPasses == 2    \* Capture Lists per draw

\* A variant that carries the stack and the max layer over to the next list.
NextCapturesKeepLocals(st, captures) ==
    [MatchEnter(st.impl, captures) EXCEPT
        !.nth = st.nth + 1, !.prevMax = st.max_layer,
        !.layers = st.layers, !.max_layer = st.max_layer]

\* The next iteration of `for captures in matches`: a new call, new locals.
NextCaptures(st, captures) ==
    [MatchEnter(st.impl, captures) EXCEPT
        !.nth = st.nth + 1, !.prevMax = st.max_layer]

\* The Capture Lists that follow the first one of a draw.
FollowLists == CaptureLists(1)

\* Render::draw_regex_groups(&infos, col, row, max_layer)
DrawRegexGroups ==
    /\ lay.phase = "done" /\ lay.impl = "render"
    /\ lay' = [lay EXCEPT !.phase = "drawn",
                          !.out = DrawGroups(lay.infos, LEFT_PADDING, LINES_BETWEEN,
                                             lay.max_layer)]
    /\ UNCHANGED <<cacheVars, qry, hl, app, ui, ses, fld>>

\* lib.rs draw_groups(w, &infos, col, row, max_layer)
DrawGroupsCall ==
    /\ lay.phase = "done" /\ lay.impl = "lib"
    /\ lay' = [lay EXCEPT !.phase = "drawn",
                          !.out = DrawGroups(lay.infos, LEFT_PADDING, LINES_BETWEEN,
                                             lay.max_layer)]
    /\ UNCHANGED <<cacheVars, qry, hl, app, ui, ses, fld>>

\* Render::draw_regex_hay: on to the next Capture List.
DrawRegexHayNext ==
    /\ lay.phase = "drawn" /\ lay.impl = "render"
    /\ lay.nth < MaxPasses
    /\ \E captures \in FollowLists : lay' = NextCaptures(lay, captures)
    /\ UNCHANGED <<cacheVars, qry, hl, app, ui, ses, fld>>

\* App::draw_hay: on to the next Capture List.
DrawHayNext ==
    /\ lay.phase = "drawn" /\ lay.impl = "lib"
    /\ lay.nth < MaxPasses
    /\ \E captures \in FollowLists : lay' = NextCaptures(lay, captures)
    /\ UNCHANGED <<cacheVars, qry, hl, app, ui, ses, fld>>

NextLayer ==
    \/ DrawRegexMatchIter
    \/ DrawRegexMatchReturn
    \/ DrawMatchIter
    \/ DrawMatchReturn
    \/ DrawRegexGroups
    \/ DrawGroupsCall
    \/ DrawRegexHayNext
    \/ DrawHayNext

SpecLayer == InitLayer /\ [][NextLayer]_vars

InitHay ==
    CacheInit /\ ses = IdleSes /\ fld = IdleFld /\ lay = IdleLay /\ qry = IdleQry /\ hl = IdleHl /\ app = IdleApp /\ ui = IdleUi

NextHay ==
    \/ AppDrawHay
    \/ RenderDrawRegexHay
    \/ RenderDrawError

SpecHay == InitHay /\ [][NextHay]_vars

(***************************************************************************)
(* input.rs Input and lib.rs App::run: the editing loop.                   *)
(***************************************************************************)

\* Change::new(), .content(), .cursor()
NoChange == [content |-> FALSE, cursor |-> FALSE]
CursorChange == [content |-> FALSE, cursor |-> TRUE]
ContentChange == [content |-> TRUE, cursor |-> TRUE]

\* Input::default()
EmptyInput == [string |-> <<>>, cursor |-> 0]

\* Input::clamp_cursor: new_cursor_pos.clamp(0, self.string.chars().count())
clamp_cursor(inp, pos) == IF pos > Len(inp.string) THEN Len(inp.string) ELSE pos

\* Input::byte_index, as the character position the byte index stands for:
\* that of character number cursor, or the end of the string.
byte_index(inp) == IF inp.cursor < Len(inp.string) THEN inp.cursor ELSE Len(inp.string)

\* Input::move_cursor_left
move_cursor_left(inp) ==
    [inp |-> [inp EXCEPT !.cursor = clamp_cursor(inp, SaturatingSub1(inp.cursor))],
     change |-> CursorChange]

\* Input::move_cursor_right
move_cursor_right(inp) ==
    [inp |-> [inp EXCEPT !.cursor = clamp_cursor(inp, inp.cursor + 1)],
     change |-> CursorChange]

\* Input::move_cursor_start
move_cursor_start(inp) == [inp |-> [inp EXCEPT !.cursor = 0], change |-> CursorChange]

\* Input::move_cursor_end: the cursor becomes the length in bytes.
move_cursor_end(inp) ==
    [inp |-> [inp EXCEPT !.cursor = ByteLen(inp.string)], change |-> CursorChange]

\* Input::insert
insert(inp, ch) ==
    LET at == byte_index(inp)
        str == SubSeq(inp.string, 1, at) \o <<ch>>
                 \o SubSeq(inp.string, at + 1, Len(inp.string))
    IN [inp |-> move_cursor_right([inp EXCEPT !.string = str]).inp,
        change |-> ContentChange]

\* Input::delete_char: chars().take(cursor - 1) chained with
\* chars().skip(cursor), both of which stop at the end of the string.
delete_char(inp) ==
    IF inp.cursor > 0
    THEN LET str == SubSeq(inp.string, 1, Min2(inp.cursor - 1, Len(inp.string)))
                      \o SubSeq(inp.string, Min2(inp.cursor, Len(inp.string)) + 1,
                                Len(inp.string))
         IN [inp |-> move_cursor_left([inp EXCEPT !.string = str]).inp,
             change |-> ContentChange]
    ELSE [inp |-> inp, change |-> NoChange]

\* App::new(), at the top of the loop of run with the first Change.
\* redrawn and lookups tell what the latest pass through the loop did: whether
\* App::draw returned, and how many calls of get_or_init it made.
NewApp ==
    [phase |-> "top", typ |-> "Re", re |-> EmptyInput, hay |-> EmptyInput,
     exit |-> FALSE, change |-> ContentChange, cursorAt |-> <<0, 0>>,
     redrawn |-> FALSE, lookups |-> 0]

\* An operation of Input on current_mut().
OnCurrent(u, r) ==
    [u EXCEPT !.re = IF u.typ = "Re" THEN r.inp ELSE @,
              !.hay = IF u.typ = "Hay" THEN r.inp ELSE @,
              !.change = r.change]

\* App::current_mut, read.
Current(u) == IF u.typ = "Re" THEN u.re ELSE u.hay

\* App::switch
switch(u) ==
    [u EXCEPT !.typ = IF u.typ = "Re" THEN "Hay" ELSE "Re", !.change = CursorChange]

\* The events event::read() may return: key presses, as [code, ch, ctrl],
\* and "Other" for every event that is no key press.
KeyChars == {"(", ")", "a"}
CtrlChars == {"h", "j", "l", "x"}
Events ==
    [code : {"Char"}, ch : KeyChars, ctrl : {FALSE}]
      \cup [code : {"Char"}, ch : CtrlChars, ctrl : {TRUE}]
      \cup [code : {"Left", "Right"}, ch : {""}, ctrl : BOOLEAN]
      \cup [code : {"Backspace", "Tab", "Esc", "F1", "Other"}, ch : {""}, ctrl : {FALSE}]

\* App::handle_events with handle_key_event and exit: the App after the
\* event, with the Change returned.
handle_events(u, ev) ==
    CASE ev.code = "Char" /\ ev.ctrl /\ ev.ch = "h" -> OnCurrent(u, move_cursor_left(Current(u)))
      [] ev.code = "Char" /\ ev.ctrl /\ ev.ch \in {"j", "k", "n", "p"} -> switch(u)
      [] ev.code = "Char" /\ ev.ctrl /\ ev.ch = "l" -> OnCurrent(u, move_cursor_right(Current(u)))
      [] ev.code = "Char" /\ ev.ctrl /\ ev.ch \notin {"h", "j", "k", "n", "p", "l"} ->
            [u EXCEPT !.change = NoChange]
      [] ev.code = "Char" /\ ~ev.ctrl -> OnCurrent(u, insert(Current(u), ev.ch))
      [] ev.code = "Backspace" -> OnCurrent(u, delete_char(Current(u)))
      [] ev.code = "Left" /\ ev.ctrl -> OnCurrent(u, move_cursor_start(Current(u)))
      [] ev.code = "Left" /\ ~ev.ctrl -> OnCurrent(u, move_cursor_left(Current(u)))
      [] ev.code = "Right" /\ ev.ctrl -> OnCurrent(u, move_cursor_end(Current(u)))
      [] ev.code = "Right" /\ ~ev.ctrl -> OnCurrent(u, move_cursor_right(Current(u)))
      [] ev.code \in {"Tab", "Up", "Down"} -> switch(u)
      [] ev.code = "Esc" -> [u EXCEPT !.exit = TRUE, !.change = NoChange]
      [] OTHER -> [u EXCEPT !.change = NoChange]

\* App::pos
pos(u) ==
    IF u.typ = "Re" THEN <<LEFT_PADDING + u.re.cursor, 0>>
    ELSE <<LEFT_PADDING + u.hay.cursor, LINES_BETWEEN>>

RECURSIVE RunQuery(_)
\* App::draw_re from the locals st to its return or panic.
RunQuery(st) ==
    IF st.phase # "run" THEN st
    ELSE IF st.i > Len(st.s) THEN [st EXCEPT !.phase = "done"]
    ELSE RunQuery(BracketIter(st, "Reset"))

\* ---- the patterns and haystacks the keys may build ------------------------
MaxOpen == 6      \* opening parentheses typed in a row
OpenRun(k) == [j \in 1..k |-> "("]
Prefixes(s) == {SubSeq(s, 1, k) : k \in 0..Len(s)}
AllowedRe == Prefixes(OpenRun(MaxOpen)) \cup Prefixes(<<"(", "a", ")">>)
AllowedHay == Prefixes(<<"a">>)

\* The loop of App::run up to handle_events: the redraw when the content
\* changed (draw_re, then draw_hay through the cache), the cursor, the flush.
AppLoopTop ==
    /\ ui.phase = "top" /\ ~ui.exit
    /\ IF ui.change.content
       THEN LET q == RunQuery(QueryEnter("lib", ui.re.string))
                r == Cache_get_or_init(cache, ui.re.string, ui.hay.string)
                d == draw_hay(ui.re.string, ui.hay.string, r.res,
                              LEFT_PADDING, LINES_BETWEEN)
            IN /\ qry' = q
               /\ IF q.phase = "panic"
                  THEN /\ ui' = [ui EXCEPT !.phase = "panic", !.redrawn = FALSE,
                                                !.lookups = 0]
                       /\ UNCHANGED <<cache, app>>
                  ELSE /\ cache' = r.cache
                       /\ app' = AfterDraw("lib", ui.re.string, ui.hay.string, r.res.ok, d)
                       /\ ui' = IF d.phase = "panic"
                                THEN [ui EXCEPT !.phase = "panic", !.redrawn = FALSE,
                                                !.lookups = 1]
                                ELSE [ui EXCEPT !.phase = "read", !.redrawn = TRUE,
                                                !.lookups = 1,
                                                !.cursorAt = IF ui.change.cursor
                                                             THEN pos(ui) ELSE @]
       ELSE /\ ui' = [ui EXCEPT !.phase = "read", !.redrawn = FALSE, !.lookups = 0,
                                !.cursorAt = IF ui.change.cursor THEN pos(ui) ELSE @]
            /\ UNCHANGED <<cache, app, qry>>
    /\ UNCHANGED <<compiles, runs, firstRes, firstErr, ret, lay, hl, ses, fld>>

\* change = self.handle_events()?, on one event.
AppHandleEvents ==
    /\ ui.phase = "read"
    /\ \E ev \in Events :
          LET u == handle_events(ui, ev)
          IN /\ u.re.string \in AllowedRe /\ u.hay.string \in AllowedHay
             /\ ui' = [u EXCEPT !.phase = "top"]
    /\ UNCHANGED <<cacheVars, lay, qry, hl, app, ses, fld>>

\* `while !self.exit` ends; the screen is cleared and run returns.
AppExit ==
    /\ ui.phase = "top" /\ ui.exit
    /\ ui' = [ui EXCEPT !.phase = "exited"]
    /\ UNCHANGED <<cacheVars, lay, qry, hl, app, ses, fld>>

InitApp ==
    /\ CacheInit /\ ses = IdleSes /\ fld = IdleFld /\ lay = IdleLay /\ qry = IdleQry /\ hl = IdleHl /\ app = IdleApp
    /\ ui = NewApp

NextApp ==
    \/ AppLoopTop
    \/ AppHandleEvents
    \/ AppExit

SpecApp == InitApp /\ [][NextApp]_vars

(***************************************************************************)
(* persist.rs: Session and the session files.  `ses` holds files, the      *)
(* files of ~/.replay/persist as a map from file name to content, and op,  *)
(* <<>> or the latest operation with its arguments and its result.  The    *)
(* directory can be created and its files can be written; a file that is   *)
(* not in the map cannot be read or removed.                               *)
(***************************************************************************)
INVALID_CHARS == {" ", "/", "\\"}

\* str::find(INVALID_CHARS): the byte index of the first character of the
\* name that is in the set, or none.
FindInvalid(name) ==
    LET hits == {i \in 1..Len(name) : name[i] \in INVALID_CHARS}
    IN IF hits = {} THEN [some |-> FALSE, idx |-> 0]
       ELSE LET first == CHOOSE i \in hits : \A j \in hits : i <= j
            IN [some |-> TRUE, idx |-> ByteLen(SubSeq(name, 1, first - 1))]

\* validate_name: name.chars().nth(idx).unwrap() takes the byte index as a
\* character index; unwrap panics when there is no such character.
validate_name(name) ==
    LET f == FindInvalid(name)
    IN IF f.some
       THEN IF f.idx < Len(name)
            THEN [kind |-> "InvalidName", c |-> name[f.idx + 1]]
            ELSE [kind |-> "panic", c |-> ""]
       ELSE [kind |-> "Ok", c |-> ""]

Digits == <<"0", "1", "2", "3", "4", "5", "6", "7", "8", "9">>

RECURSIVE FormatUsize(_)
\* format!("{}", n) of a usize: its decimal digits.
FormatUsize(n) ==
    IF n < 10 THEN <<Digits[n + 1]>>
    ELSE FormatUsize(n \div 10) \o <<Digits[(n % 10) + 1]>>

RECURSIVE DigitsValue(_)
\* The number a sequence of decimal digits stands for.
DigitsValue(ds) ==
    IF ds = <<>> THEN 0
    ELSE DigitsValue(Front(ds)) * 10 + (CHOOSE v \in 0..9 : Digits[v + 1] = Last(ds))

\* str::parse::<usize>: decimal digits, after an optional plus sign.
ParseUsize(s) ==
    LET ds == IF s # <<>> /\ s[1] = "+" THEN Tail(s) ELSE s
    IN IF ds # <<>> /\ \A i \in 1..Len(ds) : \E v \in 1..10 : Digits[v] = ds[i]
       THEN [ok |-> TRUE, val |-> DigitsValue(ds)]
       ELSE [ok |-> FALSE, val |-> 0]

RECURSIVE Split(_, _)
\* str::split(sep): the pieces between the separators, at least one piece.
Split(s, sep) ==
    LET hits == {i \in 1..Len(s) : s[i] = sep}
    IN IF hits = {} THEN <<s>>
       ELSE LET first == CHOOSE i \in hits : \A j \in hits : i <= j
            IN <<SubSeq(s, 1, first - 1)>> \o Split(SubSeq(s, first + 1, Len(s)), sep)

\* A variant that splits a line at its last colon.
parse_fieldLastColon(s) ==
    LET hits == {i \in 1..Len(s) : s[i] = ":"}
    IN IF hits = {} THEN [ok |-> FALSE, err |-> "Separator", inp |-> EmptyInput]
       ELSE LET last == CHOOSE i \in hits : \A j \in hits : j <= i
                cur == ParseUsize(SubSeq(s, 1, last - 1))
            IN IF cur.ok
               THEN [ok |-> TRUE, err |-> "",
                     inp |-> [string |-> SubSeq(s, last + 1, Len(s)), cursor |-> cur.val]]
               ELSE [ok |-> FALSE, err |-> "Cursor", inp |-> EmptyInput]

\* parse_field: split_once(':') at the first colon, then cursor.parse().
parse_field(s) ==
    LET hits == {i \in 1..Len(s) : s[i] = ":"}
    IN IF hits = {} THEN [ok |-> FALSE, err |-> "Separator", inp |-> EmptyInput]
       ELSE LET first == CHOOSE i \in hits : \A j \in hits : i <= j
                cur == ParseUsize(SubSeq(s, 1, first - 1))
            IN IF cur.ok
               THEN [ok |-> TRUE, err |-> "",
                     inp |-> [string |-> SubSeq(s, first + 1, Len(s)), cursor |-> cur.val]]
               ELSE [ok |-> FALSE, err |-> "Cursor", inp |-> EmptyInput]

\* parse_session: the two Inputs of a session file; a file that cannot be
\* read gives a blank session.
parse_session(files, path) ==
    IF path \in DOMAIN files
    THEN LET lines == Split(files[path], "\n")
         IN IF Len(lines) # 2
            THEN [ok |-> FALSE, err |-> "Lines",
                  regex_query |-> EmptyInput, test_string |-> EmptyInput]
            ELSE LET rq == parse_field(lines[1])
                     ts == parse_field(lines[2])
                 IN IF ~rq.ok
                    THEN [ok |-> FALSE, err |-> rq.err,
                          regex_query |-> EmptyInput, test_string |-> EmptyInput]
                    ELSE IF ~ts.ok
                    THEN [ok |-> FALSE, err |-> ts.err,
                          regex_query |-> EmptyInput, test_string |-> EmptyInput]
                    ELSE [ok |-> TRUE, err |-> "",
                          regex_query |-> rq.inp, test_string |-> ts.inp]
    ELSE [ok |-> TRUE, err |-> "",
          regex_query |-> EmptyInput, test_string |-> EmptyInput]

\* SessionName
Scratch == [kind |-> "Scratch", name |-> <<>>]
Name(n) == [kind |-> "Name", name |-> n]

\* Session::fetch: a panic and an InvalidName of validate_name and an
\* InvalidFormat of parse_session end the call.
Session_fetch(files, name) ==
    LET v == validate_name(name)
        blank == [name |-> Name(name), regex_query |-> EmptyInput,
                  test_string |-> EmptyInput]
    IN IF v.kind # "Ok"
       THEN [kind |-> v.kind, c |-> v.c, err |-> "", session |-> blank]
       ELSE LET r == parse_session(files, name)
            IN IF r.ok
               THEN [kind |-> "Ok", c |-> "", err |-> "",
                     session |-> [name |-> Name(name), regex_query |-> r.regex_query,
                                  test_string |-> r.test_string]]
               ELSE [kind |-> "InvalidFormat", c |-> "", err |-> r.err, session |-> blank]

\* format!("{}:{}\n{}:{}", rq.cursor, rq.string, ts.cursor, ts.string)
SessionText(s) ==
    FormatUsize(s.regex_query.cursor) \o <<":">> \o s.regex_query.string \o <<"\n">>
    \o FormatUsize(s.test_string.cursor) \o <<":">> \o s.test_string.string

\* fs::remove_file: an error when there is no such file.
remove_file(files, path) ==
    IF path \in DOMAIN files
    THEN [files |-> [q \in DOMAIN files \ {path} |-> files[q]], res |-> "Ok"]
    ELSE [files |-> files, res |-> "NotFound"]

\* fs::write: creates or replaces the file.
write(files, path, text) ==
    [files |-> [q \in DOMAIN files \cup {path} |-> IF q = path THEN text ELSE files[q]],
     res |-> "Ok"]

\* Session::save
Session_save(files, s) ==
    IF s.name.kind = "Name"
    THEN IF s.regex_query.string = <<>> /\ s.test_string.string = <<>>
         THEN remove_file(files, s.name.name)
         ELSE write(files, s.name.name, SessionText(s))
    ELSE [files |-> files, res |-> "Ok"]

\* The names and the Inputs the sessions are drawn from: an empty field,
\* fields with colons and a digit, and a field with a newline.
SessionNames == { <<"s">>, <<"t">> }
Inputs ==
    { EmptyInput,
      [string |-> <<":">>, cursor |-> 1],
      [string |-> <<"7", ":", "a">>, cursor |-> 12],
      [string |-> <<"a", "\n">>, cursor |-> 2] }
Sessions ==
    [name : {Scratch} \cup {Name(n) : n \in SessionNames},
     regex_query : Inputs, test_string : Inputs]
FetchNames == SessionNames \cup { <<"s", "/", "t">> }

\* self.save() on a session.  had tells whether the file of the session
\* existed before the call.
SessionSave ==
    /\ ses.phase = "files"
    /\ \E s \in Sessions :
          LET r == Session_save(ses.files, s)
          IN ses' = [phase |-> "files", files |-> r.files,
                     op |-> <<[kind |-> "save", session |-> s, res |-> r.res,
                               had |-> s.name.name \in DOMAIN ses.files]>>]
    /\ UNCHANGED <<cacheVars, lay, qry, hl, app, ui, fld>>

\* Session::fetch(name).  after tells which save, if any, came just before.
SessionFetch ==
    /\ ses.phase = "files"
    /\ \E name \in FetchNames :
          ses' = [ses EXCEPT !.op = <<[kind |-> "fetch", name |-> name,
                                       res |-> Session_fetch(ses.files, name),
                                       after |-> IF ses.op # <<>> /\ ses.op[1].kind = "save"
                                                 THEN ses.op ELSE <<>>]>>]
    /\ UNCHANGED <<cacheVars, lay, qry, hl, app, ui, fld>>

InitPersist ==
    /\ CacheInit /\ fld = IdleFld /\ lay = IdleLay /\ qry = IdleQry /\ hl = IdleHl
    /\ app = IdleApp /\ ui = IdleUi
    /\ ses = [phase |-> "files", files |-> EmptyMap, op |-> <<>>]
NextPersist == SessionSave \/ SessionFetch
SpecPersist == InitPersist /\ [][NextPersist]_vars

(***************************************************************************)
(* persist.rs: validate_name on its own, one call per behaviour.           *)
(***************************************************************************)
MaxNameLen == 3
NameAlphabet == {"a", "e_acute", " ", "/", "\\"}
Names(maxLen) == SeqsUpTo(NameAlphabet, maxLen)

ValidateName ==
    /\ ses.phase = "name"
    /\ ses' = [phase |-> "validated", name |-> ses.name, res |-> validate_name(ses.name)]
    /\ UNCHANGED <<cacheVars, lay, qry, hl, app, ui, fld>>

InitName ==
    /\ CacheInit /\ fld = IdleFld /\ lay = IdleLay /\ qry = IdleQry /\ hl = IdleHl
    /\ app = IdleApp /\ ui = IdleUi
    /\ \E name \in Names(MaxNameLen) : ses = [phase |-> "name", name |-> name]
NextName == ValidateName
SpecName == InitName /\ [][NextName]_vars

(***************************************************************************)
(* input.rs: one Input under a sequence of its operations, with characters *)
(* of one and of two bytes.  `fld` holds the Input and the name of the     *)
(* latest operation.                                                       *)
(***************************************************************************)
MaxInputLen == 3
InputChars == {"a", "e_acute"}

Applied(r, name) == fld' = [phase |-> "edit", inp |-> r.inp, op |-> name]

InputInsert ==
    /\ fld.phase = "edit" /\ Len(fld.inp.string) < MaxInputLen
    /\ \E ch \in InputChars : Applied(insert(fld.inp, ch), "insert")
    /\ UNCHANGED <<cacheVars, lay, qry, hl, app, ui, ses>>

InputDeleteChar ==
    /\ fld.phase = "edit"
    /\ Applied(delete_char(fld.inp), "delete_char")
    /\ UNCHANGED <<cacheVars, lay, qry, hl, app, ui, ses>>

InputMoveCursorLeft ==
    /\ fld.phase = "edit"
    /\ Applied(move_cursor_left(fld.inp), "move_cursor_left")
    /\ UNCHANGED <<cacheVars, lay, qry, hl, app, ui, ses>>

InputMoveCursorRight ==
    /\ fld.phase = "edit"
    /\ Applied(move_cursor_right(fld.inp), "move_cursor_right")
    /\ UNCHANGED <<cacheVars, lay, qry, hl, app, ui, ses>>

InputMoveCursorStart ==
    /\ fld.phase = "edit"
    /\ Applied(move_cursor_start(fld.inp), "move_cursor_start")
    /\ UNCHANGED <<cacheVars, lay, qry, hl, app, ui, ses>>

InputMoveCursorEnd ==
    /\ fld.phase = "edit"
    /\ Applied(move_cursor_end(fld.inp), "move_cursor_end")
    /\ UNCHANGED <<cacheVars, lay, qry, hl, app, ui, ses>>

InitInput ==
    /\ CacheInit /\ ses = IdleSes /\ lay = IdleLay /\ qry = IdleQry /\ hl = IdleHl
    /\ app = IdleApp /\ ui = IdleUi
    /\ fld = [phase |-> "edit", inp |-> EmptyInput, op |-> "default"]
NextInput ==
    \/ InputInsert \/ InputDeleteChar
    \/ InputMoveCursorLeft \/ InputMoveCursorRight
    \/ InputMoveCursorStart \/ InputMoveCursorEnd
SpecInput == InitInput /\ [][NextInput]_vars

(***************************************************************************)
(* Claims about the match cache, checked under SpecCache.                  *)
(***************************************************************************)
Called == ret # <<>>
LastCall == ret[1]

\* C1: the match engine runs at most once for each (pattern, haystack) pair,
\* and every call for a pair returns the Capture Lists the first call for
\* that pair returned.
C1_PairComputedOnce ==
    /\ \A x \in DOMAIN runs : runs[x] <= 1
    /\ (Called /\ LastCall.res.ok) =>
          /\ <<LastCall.pat, LastCall.hay>> \in DOMAIN firstRes
          /\ LastCall.res.caps = firstRes[<<LastCall.pat, LastCall.hay>>]

\* A repeated call for a pair with at least one match has returned.
C1_Witness ==
    /\ Called /\ LastCall.hayHit /\ LastCall.res.ok
    /\ LastCall.res.caps # <<>>
    /\ runs[<<LastCall.pat, LastCall.hay>>] = 1

\* C2: once compiling a pattern has failed, the pattern is never compiled
\* again, the match engine never runs for it, no haystack entry is stored
\* under it, and every call with it returns the error of the first call.
C2_FailedPatternStaysFailed ==
    \A p \in DOMAIN firstErr :
        /\ p \in DOMAIN cache /\ ~cache[p].ok
        /\ compiles[p] = 1
        /\ \A h \in CacheHays : runs[<<p, h>>] = 0
        /\ DOMAIN cache[p].caps = {}
        /\ (Called /\ LastCall.pat = p) => LastCall.res = ErrRes(firstErr[p])

\* A later call with a pattern whose compilation failed has returned.
C2_Witness ==
    /\ Called /\ LastCall.patHit /\ ~LastCall.res.ok
    /\ LastCall.pat \in DOMAIN firstErr
    /\ LastCall.res.err = "unclosed group"

\* The step taken by a call with a compiled pattern and a haystack not yet
\* stored under it.
C3_NewHayStep ==
    \A p \in CachePatterns, h \in CacheHays :
        ( /\ p \in DOMAIN cache /\ cache[p].ok
          /\ h \notin DOMAIN cache[p].caps
          /\ ret' # <<>> /\ ret'[1].pat = p /\ ret'[1].hay = h )
        => /\ runs'[<<p, h>>] = runs[<<p, h>>] + 1
           /\ \A x \in DOMAIN runs : x # <<p, h>> => runs'[x] = runs[x]
           /\ compiles' = compiles

\* C3: a call with a compiled pattern and a new haystack runs the match step
\* once and the compile step not at all, and no pattern is ever compiled more
\* than once.
C3_OnlyMatchStepRecomputed ==
    /\ [](\A p \in CachePatterns : compiles[p] <= 1)
    /\ [][C3_NewHayStep]_vars

\* A call with an already compiled pattern and a new haystack has returned.
C3_Witness ==
    /\ Called /\ LastCall.patHit /\ ~LastCall.hayHit /\ LastCall.res.ok
    /\ runs[<<LastCall.pat, LastCall.hay>>] = 1
    /\ compiles[LastCall.pat] = 1

\* What a call leaves in the cache: every stored entry, unchanged, plus at
\* most the entry of its pattern and of its haystack under that pattern.
C4_GrowStep ==
    /\ \A p \in DOMAIN cache :
          /\ p \in DOMAIN cache'
          /\ cache'[p].ok = cache[p].ok
          /\ cache'[p].re = cache[p].re
          /\ cache'[p].err = cache[p].err
          /\ \A h \in DOMAIN cache[p].caps :
                /\ h \in DOMAIN cache'[p].caps
                /\ cache'[p].caps[h] = cache[p].caps[h]
    /\ \A p \in DOMAIN cache' :
          /\ p \notin DOMAIN cache => (ret' # <<>> /\ p = ret'[1].pat)
          /\ \A h \in DOMAIN cache'[p].caps :
                (p \notin DOMAIN cache \/ h \notin DOMAIN cache[p].caps)
                => (ret' # <<>> /\ p = ret'[1].pat /\ h = ret'[1].hay)

\* C4: the cache only grows; a call adds at most the entry for its pattern and
\* the entry for its haystack under that pattern and changes no other entry.
C4_CacheOnlyGrows == [][C4_GrowStep]_vars

\* Two patterns are stored, one of them failed and one with two haystacks.
C4_Witness ==
    /\ \E p \in DOMAIN cache : ~cache[p].ok
    /\ \E p \in DOMAIN cache : cache[p].ok /\ Cardinality(DOMAIN cache[p].caps) >= 2
    /\ Cardinality(DOMAIN cache) >= 3

(***************************************************************************)
(* Claims about the layering pass, checked under SpecLayer.                *)
(***************************************************************************)
LayersOf(infos) == [j \in DOMAIN infos |-> infos[j].layer]

\* The stack the rule prescribes after the span (start, end): the longest
\* prefix of the old stack whose top is greater than start, then end.
RuleKeep(layers, start) ==
    CHOOSE k \in 0..Len(layers) :
        /\ k > 0 => layers[k] > start
        /\ \A j \in (k + 1)..Len(layers) : layers[j] <= start

C5_RuleStep ==
    (lay.phase = "run" /\ lay' # lay /\ lay.i <= Len(lay.captures)) =>
        LET start == lay.captures[lay.i][1]
            end == lay.captures[lay.i][2]
            keep == RuleKeep(lay.layers, start)
        IN /\ lay'.layers = Append(SubSeq(lay.layers, 1, keep), end)
           /\ lay'.phase # "panic" =>
                 lay'.infos = Append(lay.infos,
                                     [start |-> start, end |-> end, layer |-> keep])

\* C5: for each span in the given order the pass pops every pending end on
\* top of the stack that is <= start, pushes end and gives the span the layer
\* stack size - 1; (0,10),(2,5),(6,8) get layers 0, 1, 1.
C5_LayeringRule ==
    /\ [][C5_RuleStep]_vars
    /\ []((lay.phase = "done" /\ lay.captures = ExampleSiblings)
            => LayersOf(lay.infos) = <<0, 1, 1>>)

\* A pass has returned in which a span ending exactly where the next one
\* starts was popped, so that both got the same layer inside an outer span.
C5_Witness ==
    /\ lay.phase = "done" /\ Len(lay.infos) = 3
    /\ lay.infos[2].end = lay.infos[3].start
    /\ lay.infos[2].end > lay.infos[2].start
    /\ LayersOf(lay.infos) = <<0, 1, 1>>

\* Each span ends at or before the start of the next one.
NonOverlapping(captures) ==
    \A j \in 1..(Len(captures) - 1) : captures[j][2] <= captures[j + 1][1]

\* C6: on a Capture List of pairwise non-overlapping spans in increasing
\* start order every span gets layer 0 and the max layer is 0.
C6_NonOverlappingLayerZero ==
    NonOverlapping(lay.captures) =>
        /\ lay.phase # "panic"
        /\ \A j \in DOMAIN lay.infos : lay.infos[j].layer = 0
        /\ lay.max_layer = 0
        /\ lay.phase = "done" => Len(lay.infos) = Len(lay.captures)

\* A pass over three non-overlapping spans, one empty and two adjacent, has
\* returned.
C6_Witness ==
    /\ lay.phase = "done" /\ NonOverlapping(lay.captures)
    /\ Len(lay.infos) = 3
    /\ lay.captures[1][1] = lay.captures[1][2]
    /\ lay.captures[2][2] = lay.captures[3][1]
    /\ lay.captures[2][1] < lay.captures[2][2]

\* Each span lies strictly inside the one before.
StrictlyNested(captures) ==
    \A j \in 1..(Len(captures) - 1) :
        /\ captures[j][1] < captures[j + 1][1]
        /\ captures[j + 1][2] < captures[j][2]

\* C7: on a Capture List of k strictly nested spans the pass assigns the
\* layers 0, 1, ..., k-1 in order and reports max layer k-1.
C7_StrictlyNestedLayers ==
    StrictlyNested(lay.captures) =>
        /\ lay.phase # "panic"
        /\ lay.phase = "done" =>
              /\ LayersOf(lay.infos) = [j \in 1..Len(lay.captures) |-> j - 1]
              /\ lay.max_layer = Max2(Len(lay.captures) - 1, 0)

\* C8: selecting the colour of a span's layer never indexes outside the
\* 6-entry LAYER_COLORS table, whatever the nesting depth.
C8_ColorIndexInTable ==
    /\ lay.phase # "panic"
    /\ lay.colorIdx >= 0 => InColorTable(lay.colorIdx)

(***************************************************************************)
(* Claims about the bracket-depth colorer, checked under SpecQuery.        *)
(***************************************************************************)
\* C9: for every pattern, balanced or not, the bracket-depth colorer never
\* panics, never indexes outside the colour table, and its depth counter
\* never goes below 0.
C9_BracketColorerSafe ==
    /\ qry.phase # "panic"
    /\ qry.colorIdx >= 0 => InColorTable(qry.colorIdx)
    /\ qry.layer >= 0

(***************************************************************************)
(* Claims about the highlight materializer, checked under SpecHl.          *)
(***************************************************************************)
Count(ev, from, to, type) == Cardinality({j \in from..to : ev[j].type = type})

\* The categories open after the first k events of a well-formed stream: those
\* of the Start events that no End among the first k events closes.
OpenAfter(ev, k) ==
    {HighlightGroups[ev[i].num + 1] :
        i \in {i \in 1..k : /\ ev[i].type = "Start"
                            /\ \A j \in (i + 1)..k :
                                  Count(ev, i + 1, j, "End") <= Count(ev, i + 1, j, "Start")}}

\* The colour of the highest-priority category of a set, Reset for none.
PriorityColor(S) ==
    IF S = {} THEN "Reset"
    ELSE GroupColor(CHOOSE g \in S : \A h \in S : GroupRank(g) <= GroupRank(h))

\* C10: the colour yielded for a byte is the colour of the highest-priority
\* category among those open when the byte's Source event was consumed,
\* whatever the order they were opened in, and Reset when none is open.
C10_PriorityColor ==
    hl.pulled = "some" =>
        /\ hl.it >= 1 /\ hl.events[hl.it].type = "Source"
        /\ hl.pos <= hl.events[hl.it].end
        /\ hl.color = PriorityColor(OpenAfter(hl.events, hl.it))

\* A colour was yielded with two categories open, the one opened last of
\* lower priority and of another colour.
C10_Witness ==
    /\ hl.pulled = "some" /\ Len(hl.stack) = 2
    /\ GroupRank(hl.stack[1]) < GroupRank(hl.stack[2])
    /\ hl.color = GroupColor(hl.stack[1])
    /\ hl.color # GroupColor(hl.stack[2])

\* The number of bytes a stream of contiguous Source ranges covers.
TotalBytes(ev) ==
    LET ends == {ev[j].end : j \in {j \in DOMAIN ev : ev[j].type = "Source"}}
    IN IF ends = {} THEN 0 ELSE CHOOSE e \in ends : \A f \in ends : f <= e

\* The start of the Source range of event k: the end of the Source before it.
SourceStart(ev, k) ==
    LET before == {j \in 1..(k - 1) : ev[j].type = "Source"}
    IN IF before = {} THEN 0
       ELSE ev[CHOOSE j \in before : \A m \in before : m <= j].end

\* The stream holds events only, no error of the tokenizer.
NoErrEvent(ev) == \A k \in DOMAIN ev : ev[k].type # "Err"

\* What one pull does on a stream that covers n bytes.
C11_PullStep ==
    (hl.phase = "run" /\ NoErrEvent(hl.events) /\ hl' # hl) =>
        LET n == TotalBytes(hl.events)
        IN /\ hl.yielded < n => (hl'.pulled = "some" /\ hl'.yielded = hl.yielded + 1)
           /\ hl.yielded >= n => (hl'.pulled = "none" /\ hl'.yielded = hl.yielded)
           /\ hl.pos < hl.limit => hl'.it = hl.it

\* C11: on a well-formed stream whose Source ranges are contiguous and cover
\* [0, n), the pulls yield exactly n colours, the k-th for byte k - 1, and
\* then signal the end; a buffered position is emitted before any further
\* event is consumed.
C11_OneColorPerByte ==
    /\ [][C11_PullStep]_vars
    /\ []((hl.pulled = "some" /\ NoErrEvent(hl.events)) =>
            /\ hl.yielded = hl.pos
            /\ hl.yielded <= TotalBytes(hl.events)
            /\ SourceStart(hl.events, hl.it) <= hl.yielded - 1
            /\ hl.yielded - 1 < hl.events[hl.it].end)
    /\ []((hl.pulled = "none" /\ NoErrEvent(hl.events)) =>
            hl.yielded = TotalBytes(hl.events))

\* The end was signalled after three colours, two of them buffered by one
\* Source range, with a category closed after the last byte.
C11_Witness ==
    /\ NoErrEvent(hl.events)
    /\ hl.pulled = "none" /\ hl.yielded = 3
    /\ hl.it = Len(hl.events)
    /\ \E k \in DOMAIN hl.events :
          hl.events[k].type = "Source" /\ hl.events[k].end - SourceStart(hl.events, k) = 2
    /\ hl.events[Len(hl.events)].type = "End"

\* C12: when the tokenizer failed to initialize, drawing the pattern field
\* completes, and every character that is no parenthesis is drawn in the
\* default colour.
C12_FallbackDrawCompletes ==
    (qry.phase # "off" /\ qry.tok = "failed") =>
        /\ qry.phase # "panic"
        /\ \A k \in DOMAIN qry.drawn :
              ~IsParen(qry.drawn[k][1]) => qry.drawn[k][2] = "Reset"

\* The instruction that prints the label of an error.
IsErrorLabel(ins) == ins.color = "DarkRed" /\ ins.text \in {<<"ERROR">>, <<"ERROR:">>}

\* C13: when the lookup returns a compile error, the draw of the haystack
\* area is the ERROR label at the origin of the haystack field and then line
\* i of the error message on row + 1 + i below it, and nothing else: no
\* haystack text, no span colouring, no connector glyph.
C13_ErrorDrawOnly ==
    (app.phase # "off" /\ ~app.ok) =>
        LET lines == ErrorLines(app.re, RegexNew(app.re).err)
        IN /\ app.phase = "done"
           /\ Len(app.out) = 1 + Len(lines)
           /\ IsErrorLabel(app.out[1])
           /\ app.out[1].col = LEFT_PADDING /\ app.out[1].row = LINES_BETWEEN
           /\ \A i \in 0..(Len(lines) - 1) :
                 app.out[i + 2] = At("Reset", lines[i + 1], LEFT_PADDING,
                                     LINES_BETWEEN + 1 + i)
           /\ app.passes = <<>>
           /\ \A k \in DOMAIN app.out :
                 app.out[k].text \notin {app.hay, <<"~">>, <<"|">>}
                 /\ app.out[k].color \notin {LAYER_COLORS[j] : j \in DOMAIN LAYER_COLORS}

\* App::draw_hay drew the error of an unclosed group after the same cache
\* had drawn matches for another pattern.
C13_Witness ==
    /\ app.phase = "done" /\ app.impl = "lib" /\ ~app.ok
    /\ app.re = <<"(", "a">> /\ app.hay = <<"a", "b", "c">>
    /\ Len(app.out) = 5
    /\ \E p \in DOMAIN cache : cache[p].ok /\ <<"a", "b", "c">> \in DOMAIN cache[p].caps

\* The instructions a draw queued, as a set.
Queued(out) == {out[k] : k \in DOMAIN out}

\* What a cell shows after the draw: the text written there last, <<>> if
\* nothing was.
Shown(out, col, row) ==
    LET at == {k \in DOMAIN out : out[k].col = col /\ out[k].row = row}
    IN IF at = {} THEN <<>>
       ELSE out[CHOOSE k \in at : \A m \in at : m <= k].text

\* The label of a span with layer g.layer in a list with max layer M.
LabelOf(g, M) ==
    At(LAYER_COLORS[g.layer + 1], <<ToString(g.layer)>>,
       LEFT_PADDING + g.start, LINES_BETWEEN + M + 2)

\* Every span's layer number is written at the span's start column on row
\* max layer + 2 below the haystack row, and nothing else is on that row.
LabelsOnLabelRow ==
    lay.phase = "drawn" =>
        {ins \in Queued(lay.out) : ins.row = LINES_BETWEEN + lay.max_layer + 2}
          = {LabelOf(lay.infos[j], lay.max_layer) : j \in DOMAIN lay.infos}

\* C15 as stated: the labels are on row max layer + 2 at the start columns,
\* and the Capture List of (a(b)c) on abc gets the layers 0 and 1, in two
\* colours, with 0 shown under column 0 and 1 under column 1.
C15_ExampleAsStated ==
    /\ LabelsOnLabelRow
    /\ (lay.phase = "drawn" /\ lay.captures = ExampleCaptures) =>
          /\ {lay.infos[j].layer : j \in DOMAIN lay.infos} = {0, 1}
          /\ Cardinality({ins.color : ins \in Queued(lay.out)}) = 2
          /\ Shown(lay.out, LEFT_PADDING, LINES_BETWEEN + lay.max_layer + 2) = <<"0">>
          /\ Shown(lay.out, LEFT_PADDING + 1, LINES_BETWEEN + lay.max_layer + 2) = <<"1">>

\* C15, amended: the labels are on row max layer + 2 at the start columns;
\* the Capture List of (a(b)c) on abc is the match, group 1 and group 2,
\* [(0,3),(0,3),(1,2)], which get the layers 0, 1 and 2 in three colours,
\* the labels 0 and 1 both at column 0 and 2 at column 1, so that the label
\* row, row 4 below the haystack, shows 1 under column 0 and 2 under column
\* 1; the list [(0,3),(1,2)] gets the layers 0 and 1 in two colours, with 0
\* shown under column 0 and 1 under column 1.
C15_LabelRow ==
    /\ LabelsOnLabelRow
    /\ (lay.phase = "drawn" /\ lay.captures = ExampleCaptures) =>
          /\ lay.captures = << <<0, 3>>, <<0, 3>>, <<1, 2>> >>
          /\ LayersOf(lay.infos) = <<0, 1, 2>>
          /\ lay.max_layer = 2
          /\ Cardinality({ins.color : ins \in Queued(lay.out)}) = 3
          /\ Shown(lay.out, LEFT_PADDING, LINES_BETWEEN + 4) = <<"1">>
          /\ Shown(lay.out, LEFT_PADDING + 1, LINES_BETWEEN + 4) = <<"2">>
    /\ (lay.phase = "drawn" /\ lay.captures = << <<0, 3>>, <<1, 2>> >>) =>
          /\ LayersOf(lay.infos) = <<0, 1>>
          /\ Cardinality({ins.color : ins \in Queued(lay.out)}) = 2
          /\ Shown(lay.out, LEFT_PADDING, LINES_BETWEEN + 3) = <<"0">>
          /\ Shown(lay.out, LEFT_PADDING + 1, LINES_BETWEEN + 3) = <<"1">>

\* The connectors of the Capture List of (a(b)c) on abc were drawn.
C15_Witness ==
    /\ lay.phase = "drawn" /\ lay.captures = ExampleCaptures
    /\ Len(lay.infos) = 3 /\ lay.max_layer = 2

\* The greatest layer a pass assigned, 0 when it assigned none.
MaxAssigned(infos) ==
    IF infos = <<>> THEN 0
    ELSE CHOOSE m \in {infos[j].layer : j \in DOMAIN infos} :
            \A j \in DOMAIN infos : infos[j].layer <= m

\* C16: the max layer a pass returns is the greatest layer it assigned (0
\* for the empty Capture List); every Capture List starts with an empty
\* stack and max layer 0, so its first span gets layer 0 whatever the lists
\* before it held.
C16_FreshPerCaptureList ==
    /\ lay.phase \in {"done", "drawn"} => lay.max_layer = MaxAssigned(lay.infos)
    /\ (lay.phase = "run" /\ lay.i = 1) =>
          lay.layers = <<>> /\ lay.max_layer = 0 /\ lay.infos = <<>>
    /\ (lay.phase # "off" /\ lay.infos # <<>>) => lay.infos[1].layer = 0

\* The pass for a second Capture List returned; the list before it was
\* nested (max layer at least 1) and this one is a single span from 0.
C16_Witness ==
    /\ lay.phase = "done" /\ lay.nth = 2 /\ lay.prevMax >= 1
    /\ Len(lay.infos) = 1 /\ lay.infos[1].start = 0 /\ lay.infos[1].end > 0
    /\ lay.max_layer = 0

\* The spans come in non-decreasing start order, outer spans first.
OuterFirst(c) ==
    \A i, j \in DOMAIN c :
        i < j => /\ c[i][1] <= c[j][1]
                 /\ (c[i][1] = c[j][1] => c[i][2] >= c[j][2])

\* No two spans cross partially: one starts inside the other and ends
\* outside it.
NoCrossing(c) ==
    \A i, j \in DOMAIN c :
        ~(c[i][1] < c[j][1] /\ c[j][1] < c[i][2] /\ c[i][2] < c[j][2])

\* The number of earlier spans whose end is greater than the start of span j.
NestingDepth(c, j) ==
    Cardinality({i \in 1..(j - 1) : c[i][2] > c[j][1]})

\* C17: in a Capture List in non-decreasing start order with outer spans
\* first and no two spans crossing, the layer assigned to a span is its
\* nesting depth.
C17_LayerIsNestingDepth ==
    (lay.phase # "off" /\ OuterFirst(lay.captures) /\ NoCrossing(lay.captures)) =>
        \A j \in DOMAIN lay.infos :
            lay.infos[j].layer = NestingDepth(lay.captures, j)

\* A pass returned on three spans where the third starts after the two
\* nested spans before it have ended.
C17_Witness ==
    /\ lay.phase = "done"
    /\ OuterFirst(lay.captures) /\ NoCrossing(lay.captures)
    /\ Len(lay.infos) = 3
    /\ LayersOf(lay.infos) = <<0, 1, 0>>

\* The connector instructions of the span g in a list with max layer M, with
\* the bar of the connector row at column barCol.
ConnectorsOf(g, M, barCol) ==
    LET color == LAYER_COLORS[g.layer + 1]
    IN {At(color, <<"~">>, LEFT_PADDING + x, LINES_BETWEEN + g.layer + 1) :
            x \in g.start..(g.end - 2)}
       \cup {At(color, <<"|">>, LEFT_PADDING + barCol, LINES_BETWEEN + g.layer + 1)}
       \cup {At(color, <<"|">>, LEFT_PADDING + g.start, LINES_BETWEEN + y) :
            y \in (g.layer + 1)..(M + 1)}

\* C20 as stated: for every span, empty spans too, the connector drawing
\* places tildes along the span from its start column and a bar at column
\* end - 1 on row layer + 1, and bars at the start column on the rows from
\* layer + 1 through max layer + 1, all in the colour of the layer.
C20_ConnectorsAsStated ==
    lay.phase = "drawn" =>
        \A j \in DOMAIN lay.infos :
            ConnectorsOf(lay.infos[j], lay.max_layer, lay.infos[j].end - 1)
                \subseteq Queued(lay.out)

\* C20, amended: the tildes are at the columns start .. end - 2 and the bar
\* is at column end - 1, or at column 0 when end = 0, on row layer + 1; the
\* bars at the start column are on the rows layer + 1 .. max layer + 1; all
\* are in the colour of the layer, and the draw queues no other glyph.  For
\* an empty span there is no tilde and the bar is at column start - 1, or
\* at column 0 when the span is (0, 0).
C20_Connectors ==
    lay.phase = "drawn" =>
        /\ \A j \in DOMAIN lay.infos :
              ConnectorsOf(lay.infos[j], lay.max_layer,
                           IF lay.infos[j].end = 0 THEN 0 ELSE lay.infos[j].end - 1)
                  \subseteq Queued(lay.out)
        /\ {ins \in Queued(lay.out) : ins.text \in {<<"~">>, <<"|">>}}
              = UNION {ConnectorsOf(lay.infos[j], lay.max_layer,
                                    IF lay.infos[j].end = 0 THEN 0
                                    ELSE lay.infos[j].end - 1) : j \in DOMAIN lay.infos}

\* The connectors were drawn for a list with the empty span (0, 0), a span
\* of three columns and an empty span further right.
C20_Witness ==
    /\ lay.phase = "drawn"
    /\ \E j \in DOMAIN lay.infos : lay.infos[j].start = 0 /\ lay.infos[j].end = 0
    /\ \E j \in DOMAIN lay.infos : lay.infos[j].end - lay.infos[j].start = 3
    /\ \E j \in DOMAIN lay.infos :
          lay.infos[j].start > 0 /\ lay.infos[j].end = lay.infos[j].start

(***************************************************************************)
(* Claims about the colours of the pattern field, checked under SpecQuery. *)
(***************************************************************************)
\* The number of bytes of the first k characters of s.
ByteEnd(s, k) == ByteLen(SubSeq(s, 1, k))

\* The colour of byte b (0-based) in a stream of contiguous Source ranges:
\* that of the categories open at the Source event whose range holds b.
ByteColor(ev, b) ==
    LET src == {k \in DOMAIN ev : /\ ev[k].type = "Source"
                                  /\ SourceStart(ev, k) <= b /\ b < ev[k].end}
    IN PriorityColor(OpenAfter(ev, CHOOSE k \in src : TRUE))

RECURSIVE DepthAfter(_, _)
\* The bracket depth after the first k characters of s.
DepthAfter(s, k) ==
    IF k = 0 THEN 0
    ELSE LET d == DepthAfter(s, k - 1)
         IN IF s[k] = "(" THEN d + 1
            ELSE IF s[k] = ")" THEN (IF d = 0 THEN 0 ELSE d - 1)
            ELSE d

\* The bracket-depth colour of the parenthesis s[k].
BracketColor(s, k) ==
    LAYER_COLORS[(IF s[k] = "(" THEN DepthAfter(s, k) ELSE DepthAfter(s, k - 1)) + 1]

\* The tokenizer worked and its Source ranges cover the pattern.
CoversPattern ==
    /\ qry.phase # "off" /\ qry.impl = "render" /\ qry.tok = "ok"
    /\ TotalBytes(hl.events) = ByteLen(qry.s)

\* Character k was drawn as the claim says: len_utf8 colours were pulled for
\* it, a parenthesis is in its bracket-depth colour, any other character in
\* the colour the stream has for the last byte of the character.
DrawnAsStated(k) ==
    /\ qry.drawn[k][1] = qry.s[k]
    /\ Len(qry.pulls[k]) = Utf8Len(qry.s[k])
    /\ qry.drawn[k][2] = IF IsParen(qry.s[k]) THEN BracketColor(qry.s, k)
                         ELSE ByteColor(hl.events, ByteEnd(qry.s, k) - 1)

\* C18: the draw of the pattern field draws every character once and in
\* order, a parenthesis in its bracket-depth colour and any other character
\* in the materializer's colour for the character's own byte position,
\* len_utf8 colours being pulled for every character, parentheses included.
C18_EveryCharacterDrawn ==
    (CoversPattern /\ qry.phase \in {"done", "panic"}) =>
        /\ Len(qry.drawn) = Len(qry.s)
        /\ \A k \in DOMAIN qry.drawn : DrawnAsStated(k)

\* C19: a character of several bytes is drawn in the colour the
\* materializer yields for the last byte of the character, and in the
\* default colour when the materializer yields nothing for its bytes; on a
\* stream of contiguous Source ranges the yields are those of its bytes.
C19_LastByteColor ==
    (qry.phase # "off" /\ qry.impl = "render") =>
        \A k \in DOMAIN qry.drawn :
            LET ch == qry.drawn[k][1]
                got == qry.pulls[k]
            IN Utf8Len(ch) > 1 =>
                 /\ got = <<>> => qry.drawn[k][2] = "Reset"
                 /\ Len(got) = Utf8Len(ch) => qry.drawn[k][2] = got[Len(got)]
                 /\ \A m \in DOMAIN got :
                       got[m] = ByteColor(hl.events, ByteEnd(qry.s, k - 1) + m - 1)

\* Two characters of two bytes were drawn: one in the colour of its second
\* byte, which is not that of its first, and one, for which the
\* materializer had nothing left, in the default colour.
C19_Witness ==
    /\ qry.phase = "done" /\ qry.impl = "render"
    /\ \E k \in DOMAIN qry.drawn :
          /\ Utf8Len(qry.drawn[k][1]) = 2 /\ Len(qry.pulls[k]) = 2
          /\ qry.pulls[k][1] # qry.pulls[k][2]
          /\ qry.drawn[k][2] = qry.pulls[k][2] /\ qry.drawn[k][2] # "Reset"
    /\ \E k \in DOMAIN qry.drawn :
          /\ Utf8Len(qry.drawn[k][1]) = 2 /\ qry.pulls[k] = <<>>
          /\ qry.drawn[k][2] = "Reset"

(***************************************************************************)
(* Claims about the editing loop, checked under SpecApp.                   *)
(***************************************************************************)
\* C14: no failure of the visualization stops the editing loop, whatever the
\* pattern, one that does not compile or one that nests parentheses deep:
\* the redraw completes and the loop reads the next key.
C14_LoopSurvivesEveryPattern == ui.phase # "panic"

(***************************************************************************)
(* Claims about the order of the haystack draw, checked under SpecHay.     *)
(***************************************************************************)
RECURSIVE Flatten(_)
\* The elements of a sequence of sequences, in order.
Flatten(ss) == IF ss = <<>> THEN <<>> ELSE ss[1] \o Flatten(Tail(ss))

\* The instructions of a draw that write on the haystack row, in order.
OnHayRow(out) == SelectSeq(out, LAMBDA ins : ins.row = LINES_BETWEEN)

\* The colour a haystack position x has after the draw: that of the last
\* instruction on the haystack row whose text lies over the position.
FinalColor(out, x) ==
    LET over == {k \in DOMAIN out :
                    /\ out[k].row = LINES_BETWEEN
                    /\ out[k].col <= LEFT_PADDING + x
                    /\ LEFT_PADDING + x < out[k].col + Len(out[k].text)}
    IN IF over = {} THEN "none"
       ELSE out[CHOOSE k \in over : \A m \in over : m <= k].color

\* The spans of all Capture Lists with their layers, in list order.
DrawnSpans == Flatten([m \in DOMAIN app.passes |-> app.passes[m].infos])

\* C21: the haystack draw prints the whole haystack once, in the default
\* colour and before every span, and then the spans of the Capture Lists in
\* list order; so a position covered by spans ends in the layer colour of
\* the last span in list order that covers it, and a position that no span
\* covers keeps the default colour.
C21_HaystackDrawOrder ==
    (app.phase # "off" /\ app.ok) =>
        LET row == OnHayRow(app.out)
            spans == DrawnSpans
            lists == CapturesIter(RegexNew(app.re).re, app.hay)
        IN /\ row # <<>> /\ app.out[1] = At("Reset", app.hay, LEFT_PADDING, LINES_BETWEEN)
           /\ Len(row) = 1 + Len(spans)
           /\ \A j \in DOMAIN spans :
                 row[j + 1] = At(LAYER_COLORS[spans[j].layer + 1],
                                 SubSeq(app.hay, spans[j].start + 1, spans[j].end),
                                 LEFT_PADDING + spans[j].start, LINES_BETWEEN)
           /\ app.phase = "done" =>
                 /\ [j \in DOMAIN spans |-> <<spans[j].start, spans[j].end>>] = Flatten(lists)
                 /\ \A x \in 0..(Len(app.hay) - 1) :
                       LET cov == {j \in DOMAIN spans :
                                      spans[j].start <= x /\ x < spans[j].end}
                       IN FinalColor(app.out, x) =
                             IF cov = {} THEN "Reset"
                             ELSE LAYER_COLORS[spans[CHOOSE j \in cov :
                                                        \A m \in cov : m <= j].layer + 1]

\* App::draw_hay drew (a(b)c) on abc: the position of b ends in the colour
\* of layer 2 and the position of a in the colour of layer 1.
C21_Witness ==
    /\ app.phase = "done" /\ app.impl = "lib" /\ app.ok
    /\ app.re = ExamplePattern /\ app.hay = <<"a", "b", "c">>
    /\ FinalColor(app.out, 1) = "Yellow" /\ FinalColor(app.out, 0) = "Green"
    /\ Len(OnHayRow(app.out)) = 4

\* The key event that was read reports a content change: the string of the
\* focused field changed.
ContentChanged == ui.re.string # ui'.re.string \/ ui.hay.string # ui'.hay.string

\* What the steps of the loop do about redraws.
C22_LoopStep ==
    /\ (ui.phase = "read" /\ ui' # ui) =>
          /\ ui'.phase = "top"
          /\ ui'.change.content = ContentChanged
          /\ cache' = cache /\ app' = app
    /\ (ui.phase = "top" /\ ~ui.exit /\ ui' # ui) =>
          IF ui.change.content
          THEN /\ ui'.phase = "read" /\ ui'.redrawn /\ ui'.lookups = 1
               /\ ui.re.string \in DOMAIN cache'
               /\ app'.re = ui.re.string /\ app'.hay = ui.hay.string
          ELSE /\ ui'.phase = "read" /\ ~ui'.redrawn /\ ui'.lookups = 0
               /\ cache' = cache /\ app' = app

\* C22: the loop redraws, with exactly one cache lookup for the current
\* pattern and haystack, once at start-up and once after every key event
\* that changed the content; a key event that only moves the cursor,
\* switches the field or is ignored causes no redraw and no lookup; no key
\* event is read between a content change and the end of its redraw.
C22_RedrawPerContentChange ==
    /\ [][C22_LoopStep]_vars
    /\ [](ui.phase = "read" => ~ui.change.content \/ ui.redrawn)

(***************************************************************************)
(* Claims about the cache as a whole, checked under SpecCache.             *)
(***************************************************************************)
\* What compiling p and running the match engine on hay returns when no
\* cache is involved.
Uncached(p, hay) ==
    LET r == RegexNew(p)
    IN IF r.ok THEN OkRes(CapturesIter(r.re, hay)) ELSE ErrRes(r.err)

\* C23: the cache is transparent: whatever calls came before, a call
\* get_or_init(p, hay) returns what compiling p and running the match engine
\* on hay without a cache returns, and every stored entry holds that value.
C23_CacheTransparent ==
    /\ Called => LastCall.res = Uncached(LastCall.pat, LastCall.hay)
    /\ \A p \in DOMAIN cache : \A h \in DOMAIN cache[p].caps :
          OkRes(cache[p].caps[h]) = Uncached(p, h)

\* A call answered from the stored entries, after calls with other patterns
\* and other haystacks, has returned the two matches of "a" in "aa".
C23_Witness ==
    /\ Called /\ LastCall.patHit /\ LastCall.hayHit
    /\ LastCall.pat = <<"a">> /\ LastCall.hay = <<"a", "a">>
    /\ LastCall.res = OkRes(<< << <<0, 1>> >>, << <<1, 2>> >> >>)
    /\ Cardinality(DOMAIN cache) >= 3
    /\ Cardinality(DOMAIN cache[<<"a">>].caps) >= 2

(***************************************************************************)
(* Claims about session names, checked under SpecName.                     *)
(***************************************************************************)
\* The positions of the invalid characters of a name.
InvalidAt(name) == {i \in 1..Len(name) : name[i] \in INVALID_CHARS}
FirstInvalid(name) == name[CHOOSE i \in InvalidAt(name) : \A j \in InvalidAt(name) : i <= j]

\* C24: validate_name never panics; it returns Ok for a name without a
\* space, a slash or a backslash, and InvalidName(c) with c the first
\* invalid character of the name otherwise, also when characters of more
\* than one byte come before the invalid character.
C24_ValidateNameTotal ==
    ses.phase = "validated" =>
        /\ ses.res.kind # "panic"
        /\ InvalidAt(ses.name) = {} => ses.res.kind = "Ok"
        /\ InvalidAt(ses.name) # {} =>
              /\ ses.res.kind = "InvalidName"
              /\ ses.res.c = FirstInvalid(ses.name)

(***************************************************************************)
(* Claims about the session files, checked under SpecPersist.              *)
(***************************************************************************)
Saved == ses.phase = "files" /\ ses.op # <<>> /\ ses.op[1].kind = "save"
Fetched == ses.phase = "files" /\ ses.op # <<>> /\ ses.op[1].kind = "fetch"
BothEmpty(s) == s.regex_query.string = <<>> /\ s.test_string.string = <<>>

\* What a save of an empty or of a scratch session does to the files.
C25_SaveStep ==
    (ses.phase = "files" /\ ses'.op # <<>> /\ ses'.op[1].kind = "save") =>
        LET s == ses'.op[1].session
        IN /\ (s.name.kind = "Name" /\ BothEmpty(s)) =>
                 /\ DOMAIN ses'.files = DOMAIN ses.files \ {s.name.name}
                 /\ \A q \in DOMAIN ses'.files : ses'.files[q] = ses.files[q]
           /\ s.name.kind = "Scratch" => ses'.files = ses.files

\* C25: saving a named session whose two strings are empty writes nothing,
\* leaves no file of that name and succeeds, whether or not a file of that
\* name existed before; saving a scratch session touches no file and
\* returns Ok.
C25_EmptySaveSucceeds ==
    /\ [][C25_SaveStep]_vars
    /\ [](Saved =>
            LET s == ses.op[1].session
            IN /\ (s.name.kind = "Name" /\ BothEmpty(s)) =>
                     /\ ses.op[1].res = "Ok"
                     /\ s.name.name \notin DOMAIN ses.files
               /\ s.name.kind = "Scratch" => ses.op[1].res = "Ok")

NoNewline(str) == \A i \in 1..Len(str) : str[i] # "\n"

\* The latest operation is a fetch of the name under which the operation
\* just before it saved a session the round trip is claimed for.
FetchedAfterSave ==
    /\ Fetched /\ ses.op[1].after # <<>>
    /\ LET s == ses.op[1].after[1].session
       IN /\ s.name = Name(ses.op[1].name)
          /\ NoNewline(s.regex_query.string) /\ NoNewline(s.test_string.string)
          /\ ~BothEmpty(s)

\* C29: the round trip of a named session: when the two strings hold no
\* newline and are not both empty, save succeeds and a fetch of the same
\* name returns the string and the cursor of both fields as they were
\* saved, also when a string holds colons.
C29_SaveFetchRoundTrip ==
    FetchedAfterSave =>
        LET s == ses.op[1].after[1].session
            r == ses.op[1].res
        IN /\ ses.op[1].after[1].res = "Ok"
           /\ r.kind = "Ok"
           /\ r.session.regex_query = s.regex_query
           /\ r.session.test_string = s.test_string

\* A session with colons and a digit in its strings and a cursor of two
\* digits has been saved over an older file and fetched again.
C29_Witness ==
    /\ FetchedAfterSave
    /\ ses.op[1].after[1].had
    /\ ses.op[1].res.session =
          [name |-> Name(<<"s">>),
           regex_query |-> [string |-> <<"7", ":", "a">>, cursor |-> 12],
           test_string |-> [string |-> <<":">>, cursor |-> 1]]

(***************************************************************************)
(* Claims about the cursor of an Input, checked under SpecInput.           *)
(***************************************************************************)
\* C26: after any sequence of insert, delete_char and the four cursor
\* moves, on strings with characters of any byte width, the cursor is a
\* character position of the string: between 0 and the number of its
\* characters.
C26_CursorWithinString ==
    fld.phase = "edit" =>
        0 <= fld.inp.cursor /\ fld.inp.cursor <= Len(fld.inp.string)

(***************************************************************************)
(* Claims about balanced parentheses, checked under SpecQuery.             *)
(***************************************************************************)
\* The parentheses of s are balanced: no prefix closes more than it opens
\* and the whole of s closes all it opens.
Opens(s, k) == Cardinality({i \in 1..k : s[i] = "("})
Closes(s, k) == Cardinality({i \in 1..k : s[i] = ")"})
Balanced(s) ==
    /\ \A k \in 1..Len(s) : Closes(s, k) <= Opens(s, k)
    /\ Closes(s, Len(s)) = Opens(s, Len(s))
Deepest(s) ==
    LET ds == {Opens(s, k) - Closes(s, k) : k \in 0..Len(s)}
    IN CHOOSE d \in ds : \A e \in ds : e <= d

\* The '(' that the ')' at position k of a balanced pattern closes: the
\* nearest one before it with as many '(' as ')' in between.
MatchingOpen(s, k) ==
    CHOOSE i \in 1..(k - 1) :
        /\ s[i] = "("
        /\ Opens(s, k - 1) - Opens(s, i) = Closes(s, k - 1) - Closes(s, i)
        /\ \A j \in (i + 1)..(k - 1) :
              s[j] = "(" =>
                 Opens(s, k - 1) - Opens(s, j) # Closes(s, k - 1) - Closes(s, j)

\* The nesting depth of the pair opened at position i: 1 for an outermost
\* pair.
PairDepth(s, i) == Opens(s, i) - Closes(s, i)

\* C27: for a pattern with balanced parentheses nested at most 5 deep the
\* colorer draws every ')' in the colour of its matching '(', which is the
\* colour of the nesting depth of the pair, 1 for an outermost pair, and
\* never draws a parenthesis in the colour of layer 0.
C27_PairsShareDepthColor ==
    (qry.phase # "off" /\ Balanced(qry.s) /\ Deepest(qry.s) <= 5) =>
        /\ qry.phase # "panic"
        /\ qry.phase = "done" => Len(qry.drawn) = Len(qry.s)
        /\ \A k \in DOMAIN qry.drawn :
              /\ qry.s[k] = "(" =>
                    qry.drawn[k][2] = LAYER_COLORS[PairDepth(qry.s, k) + 1]
              /\ qry.s[k] = ")" =>
                    /\ qry.drawn[k][2] = qry.drawn[MatchingOpen(qry.s, k)][2]
                    /\ qry.drawn[k][2] = LAYER_COLORS[PairDepth(qry.s, MatchingOpen(qry.s, k)) + 1]
              /\ IsParen(qry.s[k]) => qry.drawn[k][2] # LAYER_COLORS[1]

\* Five pairs nested in one another were drawn, the innermost in the last
\* colour of the table, the outermost in the colour of layer 1.
C27_Witness ==
    /\ qry.phase = "done" /\ qry.s = Parens(5)
    /\ qry.drawn[5][2] = "Cyan" /\ qry.drawn[6][2] = "Cyan"
    /\ qry.drawn[1][2] = "Green" /\ qry.drawn[10][2] = "Green"

(***************************************************************************)
(* Claims about the end of the materializer's sequence, checked under      *)
(* SpecHl.                                                                 *)
(***************************************************************************)
\* A pull after a pull that signalled the end.
C28_PullAfterEnd ==
    (hl.phase = "run" /\ hl.pulled = "none" /\ hl' # hl) =>
        hl'.pulled = "none" /\ hl'.it = hl.it

\* C28: once the materializer has signalled the end of its sequence, every
\* later pull signals the end as well and consumes no further event, also
\* when an error event in the middle of the stream caused the end.
C28_EndIsFinal == [][C28_PullAfterEnd]_vars

====
